---- MODULE Spec2Model ----
(***************************************************************************)
(* Job queue of the web-monitor crawler: the jobs table, the job-publisher *)
(* and job-maintenance cloud functions, the Pub/Sub work messages, the     *)
(* crawler service (RobustCrawler.processJob) and the CrawlerService API   *)
(* (triggerCrawl, cancelJob, retryFailedJob).                              *)
(*                                                                         *)
(* Every await of the source is a point where other handlers may run, so   *)
(* a handler is one action per database call; steps that touch no shared   *)
(* row are folded into the database call that follows them.                *)
(***************************************************************************)
EXTENDS Integers, FiniteSets, Sequences, TLC

(***************************************************************************)
(* Bounds of the model.                                                    *)
(***************************************************************************)
MaxJobs == 2            \* job rows that may be inserted
NumPublishers == 2      \* concurrent publishJobs invocations
NumWorkers == 2         \* concurrent crawler-service requests
NumRetryCalls == 2      \* concurrent retryFailedJob calls
MaxOverlap == 1         \* handlers that may have a second invocation in flight
MaxMsgs == 1            \* undelivered work messages for one job
MaxTick == 3            \* clock advances
NumUrls == 1            \* URLs a discovery may return
MaxConcurrency == 1     \* MAX_CONCURRENCY of the crawler service (URLs per batch)
MaxHist == 2            \* saturation of the history counters
NumSites == 2           \* website rows
NumQueued == 4          \* job rows offered to the job processor
NumRequests == 2        \* process_queue requests to the job processor
MaxPatterns == 2        \* patterns in an include or exclude list
MaxDepthSetting == 2    \* largest configured maxDepth of a crawl
MaxPagesSetting == 2    \* largest configured maxPages of a crawl
MaxCrawlConcurrency == 3 \* largest MAX_CONCURRENCY of a crawl
MaxSitemaps == 2        \* configured sitemaps of a site
MaxSnapshots == 2       \* snapshots loaded for one run
NumDispatchRows == 3    \* job rows a dispatcher finds in the table

(***************************************************************************)
(* Program constants.                                                      *)
(***************************************************************************)
StuckHours == 2         \* maintainJobs: running for more than 2 hours
OldJobDays == 30        \* maintainJobs: terminal for more than 30 days
DefaultMaxRetries == 3  \* jobs.max_retries DEFAULT 3
DefaultMaxDepth == 3    \* crawlSettings.maxDepth || 3
DefaultMaxPages == 10000 \* crawlSettings.maxPages || 10000

JobIds == 1..MaxJobs
Publishers == 1..NumPublishers
Workers == 1..NumWorkers
RetryCalls == 1..NumRetryCalls

\* SQL NULL of a timestamptz column; timestamps are hours since the epoch.
NULL == 0 - 1

Terminal == {"completed", "failed", "cancelled"}

VARIABLES
    slots,      \* invocations of each handler that may overlap, and job rows (fixed by Init)
    tracking,   \* whether the history counters are kept (fixed by Init)
    now,        \* the wall clock, in hours
    ticks,      \* clock advances so far
    jobs,       \* the jobs table: job id -> row (status "none": no such row)
    msgs,       \* Pub/Sub: job id -> number of undelivered work messages
    pub,        \* publishJobs invocation -> job id -> position of its map callback
    worker,     \* crawler-service request -> position and locals of processJob
    retry,      \* retryFailedJob call -> position and the row it read
    maint,      \* maintainJobs invocation: position and the ids it selected
    wins,       \* history: dispatchers that reported success since the job was queued
    leases,     \* history: queued -> running transitions of the row
    scansStarted, \* history: scan rows created by processJob for the job
    scans,      \* the scans table (kept when slots.scans): rows in insertion order
    sites,      \* the websites table: site id -> status and archived_at
    sweep,      \* checkForExpiredArchives: position and the threshold it computed
    pjobs,      \* the jobs table as the job processor sees it: job id -> status
    proc,       \* process_queue request -> position and fields of its JobProcessor
    pat,        \* a call of matchesPatterns: its arguments and its result
    crawl,      \* a run of discoverFromCrawling: its settings and its locals
    disc,       \* a sitemap scan: its settings, the locals of discovery and what it wrote
    comp,       \* a run comparison: the two snapshot sets and the result
    sel         \* a dispatcher at work: the queued rows it sees, its selection, its leases

siteVars == <<sites, sweep>>
procVars == <<pjobs, proc>>
libVars == <<pat, crawl, disc, comp, sel>>
queueVars == <<jobs, msgs, pub, worker, retry, maint, wins, leases, scansStarted, scans>>

\* What no handler of the job queue writes.
env == <<slots, tracking, siteVars, procVars, libVars>>

vars == <<env, now, ticks, jobs, msgs, pub, worker, retry, maint, wins, leases, scansStarted, scans>>

NoRow ==
    [status |-> "none", progress |-> 0, started_at |-> NULL, completed_at |-> NULL,
     scheduled_for |-> NULL, retry_count |-> 0, max_retries |-> 0, error_message |-> "null"]

\* The row triggerCrawl inserts; the columns it does not name take the
\* defaults of the table definition.
NewJobRow ==
    [status |-> "queued", progress |-> 0, started_at |-> NULL, completed_at |-> NULL,
     scheduled_for |-> NULL, retry_count |-> 0, max_retries |-> DefaultMaxRetries,
     error_message |-> "null"]

\* A deleted row keeps its id (a uuid is never reused) with status "deleted".
Exists(j) == jobs[j].status \notin {"none", "deleted"}

Bump(n) == IF tracking /\ n < MaxHist THEN n + 1 ELSE n

\* The clock reads 0, then exactly the stuck threshold, then just past it,
\* then just past the old-job threshold as well, then advances hourly.
ClockAt(i) ==
    CASE i = 0 -> 0
      [] i = 1 -> StuckHours
      [] i = 2 -> StuckHours + 1
      [] i = 3 -> StuckHours + 1 + OldJobDays * 24 + 1
      [] OTHER -> StuckHours + 1 + OldJobDays * 24 + 1 + (i - 3)

ClockValues(k) == {ClockAt(i) : i \in 0..k}

IdleWorker ==
    [pc |-> "idle", job |-> 0, setStart |-> FALSE, total |-> 0, processed |-> 0, scan |-> 0]
IdleRetry == [pc |-> "idle", job |-> 0, retry_count |-> 0, max_retries |-> 0]
IdleMaint == [pc |-> "idle", ids |-> {}]
IdleSweep == [pc |-> "idle", threshold |-> 0]

SiteIds == 1..NumSites
ProcJobIds == 1..NumQueued
Requests == 1..NumRequests

\* new JobProcessor(): activeJobs = new Set(); job is the row the loop selected.
IdleProc == [pc |-> "idle", activeJobs |-> {}, job |-> 0]

\* A website as addWebsite stores it: active, archived_at null.
NewSiteRow == [status |-> "active", archived_at |-> NULL]

\* At most MaxOverlap of the handlers run two invocations at once, on one
\* job row.
Deployments ==
    {d \in [pub : 1..NumPublishers, worker : 1..NumWorkers, retry : 1..NumRetryCalls,
            jobs : {1}, scans : {FALSE}] :
        (d.pub - 1) + (d.worker - 1) + (d.retry - 1) <= MaxOverlap}

\* No call of the function under way.
NoCall == [pc |-> "none"]

InitTables ==
    /\ now = 0
    /\ ticks = 0
    /\ jobs = [j \in JobIds |-> NoRow]
    /\ msgs = [j \in JobIds |-> 0]
    /\ pub = [p \in Publishers |-> [j \in JobIds |-> "none"]]
    /\ worker = [w \in Workers |-> IdleWorker]
    /\ retry = [c \in RetryCalls |-> IdleRetry]
    /\ maint = IdleMaint
    /\ wins = [j \in JobIds |-> 0]
    /\ leases = [j \in JobIds |-> 0]
    /\ scansStarted = [j \in JobIds |-> 0]
    /\ scans = <<>>
    /\ sites = [s \in SiteIds |-> NewSiteRow]
    /\ sweep = IdleSweep
    /\ pjobs = [j \in ProcJobIds |-> "none"]
    /\ proc = [r \in Requests |-> IdleProc]

InitRows ==
    /\ InitTables
    /\ pat = NoCall
    /\ crawl = NoCall
    /\ disc = NoCall
    /\ comp = NoCall
    /\ sel = NoCall

Init ==
    /\ slots \in Deployments
    /\ tracking = FALSE
    /\ InitRows

Tick ==
    /\ ticks < MaxTick
    /\ ticks' = ticks + 1
    /\ now' = ClockAt(ticks + 1)
    /\ UNCHANGED <<env, jobs, msgs, pub, worker, retry, maint, wins, leases, scansStarted, scans>>

\* History of a write that replaces row j by r.
Written(j, r) ==
    leases' = [leases EXCEPT ![j] =
                 IF jobs[j].status = "queued" /\ r.status = "running" THEN Bump(@) ELSE @]

(***************************************************************************)
(* CrawlerService API                                                      *)
(***************************************************************************)
triggerCrawl(j) ==
    /\ j <= slots.jobs
    /\ jobs[j].status = "none"
    /\ \A i \in JobIds : i < j => jobs[i].status # "none"
    /\ jobs' = [jobs EXCEPT ![j] = NewJobRow]
    /\ UNCHANGED <<env, now, ticks, msgs, pub, worker, retry, maint, wins, leases, scansStarted, scans>>

\* Mutant of CancelledRow: the update without its .in('status', ...) filter.
CancelledRowUnfiltered(r, t) ==
    [r EXCEPT !.status = "cancelled", !.completed_at = t]

\* .update({status: 'cancelled', completed_at}).eq('id', jobId).in('status', ['queued', 'running'])
CancelledRow(r, t) ==
    IF r.status \in {"queued", "running"}
    THEN [r EXCEPT !.status = "cancelled", !.completed_at = t]
    ELSE r

cancelJob(j) ==
    /\ Exists(j)
    /\ jobs' = [jobs EXCEPT ![j] = CancelledRow(jobs[j], now)]
    /\ UNCHANGED <<env, now, ticks, msgs, pub, worker, retry, maint, wins, leases, scansStarted, scans>>

\* retryFailedJob, first await: select retry_count, max_retries; the call
\* throws 'Maximum retry attempts exceeded' before any write when the count
\* it read has reached the maximum, and 'Failed to fetch job' on no row.
RetryAllowed(r) == r.retry_count < r.max_retries

retryRead(c, j) ==
    /\ c <= slots.retry
    /\ retry[c].pc = "idle"
    /\ Exists(j)
    /\ RetryAllowed(jobs[j])
    /\ retry' = [retry EXCEPT ![c] = [pc |-> "write", job |-> j,
                     retry_count |-> jobs[j].retry_count,
                     max_retries |-> jobs[j].max_retries]]
    /\ UNCHANGED <<env, now, ticks, jobs, msgs, pub, worker, maint, wins, leases, scansStarted, scans>>

\* Mutant of RetriedRow: the update without its .eq('status', 'failed') filter.
RetriedRowUnfiltered(r, readCount) ==
    [r EXCEPT !.status = "queued", !.retry_count = readCount + 1,
              !.error_message = "null", !.started_at = NULL,
              !.completed_at = NULL, !.progress = 0]

\* Mutant of RetriedRow: the update without started_at: null.
RetriedRowKeepsStartedAt(r, readCount) ==
    IF r.status = "failed"
    THEN [r EXCEPT !.status = "queued", !.retry_count = readCount + 1,
                   !.error_message = "null", !.completed_at = NULL, !.progress = 0]
    ELSE r

\* retryFailedJob, second await: .update({...}).eq('id', jobId).eq('status', 'failed')
RetriedRow(r, readCount) ==
    IF r.status = "failed"
    THEN [r EXCEPT !.status = "queued", !.retry_count = readCount + 1,
                   !.error_message = "null", !.started_at = NULL,
                   !.completed_at = NULL, !.progress = 0]
    ELSE r

retryWrite(c) ==
    /\ retry[c].pc = "write"
    /\ LET j == retry[c].job
           r == RetriedRow(jobs[j], retry[c].retry_count)
       IN /\ jobs' = [jobs EXCEPT ![j] = r]
          /\ wins' = [wins EXCEPT ![j] = IF r.status = "queued" /\ jobs[j].status # "queued"
                                         THEN 0 ELSE @]
    /\ retry' = [retry EXCEPT ![c] = IdleRetry]
    /\ UNCHANGED <<env, now, ticks, msgs, pub, worker, maint, leases, scansStarted, scans>>

(***************************************************************************)
(* job-publisher cloud function                                            *)
(***************************************************************************)
\* select ... .eq('status', 'queued') ... .limit(50)
PublishLimit == 50

QueuedJobs == {j \in JobIds : jobs[j].status = "queued"}

\* The invocation returns at once when nothing is queued; otherwise one map
\* callback per selected row starts (the limit of 50 exceeds MaxJobs).
publishSelect(p) ==
    /\ p <= slots.pub
    /\ \A j \in JobIds : pub[p][j] = "none"
    /\ QueuedJobs # {}
    /\ Cardinality(QueuedJobs) <= PublishLimit
    /\ pub' = [pub EXCEPT ![p] = [j \in JobIds |->
                   IF j \in QueuedJobs THEN "publish" ELSE "none"]]
    /\ UNCHANGED <<env, now, ticks, jobs, msgs, worker, retry, maint, wins, leases, scansStarted, scans>>

\* await pubsub.topic(topicName).publishMessage(...): the message is out
\* before the row is touched.
publishMessage(p, j) ==
    /\ pub[p][j] = "publish"
    /\ msgs[j] < MaxMsgs
    /\ msgs' = [msgs EXCEPT ![j] = @ + 1]
    /\ pub' = [pub EXCEPT ![p][j] = "update"]
    /\ UNCHANGED <<env, now, ticks, jobs, worker, retry, maint, wins, leases, scansStarted, scans>>

\* publishMessage threw: the callback returns {success: false} without a write.
publishFailed(p, j) ==
    /\ pub[p][j] = "publish"
    /\ pub' = [pub EXCEPT ![p][j] = "none"]
    /\ UNCHANGED <<env, now, ticks, jobs, msgs, worker, retry, maint, wins, leases, scansStarted, scans>>

\* .update({status: 'running', started_at, progress: 0}).eq('id', job.id).eq('status', 'queued')
LeasedRow(r, t) ==
    IF r.status = "queued"
    THEN [r EXCEPT !.status = "running", !.started_at = t, !.progress = 0]
    ELSE r

\* An update that matches no row is no error: the callback returns
\* {success: true} whether or not it changed the row.
publishUpdate(p, j) ==
    /\ pub[p][j] = "update"
    /\ jobs' = [jobs EXCEPT ![j] = LeasedRow(jobs[j], now)]
    /\ Written(j, LeasedRow(jobs[j], now))
    /\ wins' = [wins EXCEPT ![j] = Bump(@)]
    /\ pub' = [pub EXCEPT ![p][j] = "none"]
    /\ UNCHANGED <<env, now, ticks, msgs, worker, retry, maint, scansStarted, scans>>

(***************************************************************************)
(* crawler service: RobustCrawler.processJob                               *)
(***************************************************************************)
\* updateJobStatus: the update it sends, applied to row r (the update names
\* the row by id alone). setStart is what `!await getJobStartTime(jobId)`
\* returned, read in an earlier await than the update itself.
UpdatedRow(r, status, progress, setStart, err, t) ==
    LET r1 == [r EXCEPT !.status = status, !.progress = progress]
        r2 == IF status = "running" /\ setStart THEN [r1 EXCEPT !.started_at = t] ELSE r1
        r3 == IF status \in {"completed", "failed"}
              THEN [r2 EXCEPT !.completed_at = t] ELSE r2
    IN IF err # "null" THEN [r3 EXCEPT !.error_message = err] ELSE r3

\* Math.floor((processed / total) * 50) + 25
BatchProgress(processed, total) == ((processed * 50) \div total) + 25

Min(a, b) == IF a < b THEN a ELSE b

\* The progress each updateJobStatus(jobId, 'running', ...) call passes.
ProgressAt(w) ==
    CASE worker[w].pc = "run0w" -> 0
      [] worker[w].pc = "p25w" -> 25
      [] worker[w].pc = "pbw" -> BatchProgress(worker[w].processed, worker[w].total)
      [] worker[w].pc = "p75w" -> 75

WriteJob(j, r) ==
    /\ jobs' = [jobs EXCEPT ![j] = IF Exists(j) THEN r ELSE @]
    /\ Written(j, IF Exists(j) THEN r ELSE jobs[j])

\* The push request arrives and processJob selects the job row; no row
\* throws 'Job not found' into the catch block.
processJobStart(w, j) ==
    /\ w <= slots.worker
    /\ worker[w].pc = "idle"
    /\ msgs[j] > 0
    /\ msgs' = [msgs EXCEPT ![j] = @ - 1]
    /\ worker' = [worker EXCEPT ![w] =
                     [IdleWorker EXCEPT !.job = j,
                                        !.pc = IF Exists(j) THEN "run0" ELSE "fail"]]
    /\ UNCHANGED <<env, now, ticks, jobs, pub, retry, maint, wins, leases, scansStarted, scans>>

\* getJobStartTime inside updateJobStatus(jobId, 'running', progress); the
\* batch of fetches that precedes the progress update of processUrlsBatch
\* touches no job row and is folded into this step.
getJobStartTime(w) ==
    /\ worker[w].pc \in {"run0", "p25", "pb", "p75"}
    /\ LET j == worker[w].job
           done == IF worker[w].pc = "pb"
                   THEN Min(worker[w].processed + MaxConcurrency, worker[w].total)
                   ELSE worker[w].processed
       IN worker' = [worker EXCEPT ![w].setStart = ~Exists(j) \/ jobs[j].started_at = NULL,
                                   ![w].processed = done,
                                   ![w].pc = CASE worker[w].pc = "run0" -> "run0w"
                                               [] worker[w].pc = "p25" -> "p25w"
                                               [] worker[w].pc = "pb" -> "pbw"
                                               [] worker[w].pc = "p75" -> "p75w"]
    /\ UNCHANGED <<env, now, ticks, jobs, msgs, pub, retry, maint, wins, leases, scansStarted, scans>>

AfterWrite(w) ==
    CASE worker[w].pc = "run0w" -> "site"
      [] worker[w].pc = "p25w" -> IF worker[w].total > 0 THEN "pb" ELSE "p75"
      [] worker[w].pc = "pbw" -> IF worker[w].processed < worker[w].total THEN "pb" ELSE "p75"
      [] worker[w].pc = "p75w" -> "complete"

\* The update of updateJobStatus(jobId, 'running', progress).
updateJobStatusRunning(w) ==
    /\ worker[w].pc \in {"run0w", "p25w", "pbw", "p75w"}
    /\ LET j == worker[w].job
       IN WriteJob(j, UpdatedRow(jobs[j], "running", ProgressAt(w),
                                 worker[w].setStart, "null", now))
    /\ worker' = [worker EXCEPT ![w].pc = AfterWrite(w), ![w].setStart = FALSE]
    /\ UNCHANGED <<env, now, ticks, msgs, pub, retry, maint, wins, scansStarted, scans>>

\* The scan row processJob inserts: status 'running', no pages yet. by and
\* job record who inserted the row and for which job; saved counts the page
\* results of the scan that reached the pages table.
NewScanRow(by, j) ==
    [status |-> "running", by |-> by, job |-> j, total_pages |-> 0, saved |-> 0]

\* insert into scans ... .select().single(): the new row and its id.
InsertScan(by, j) == IF slots.scans THEN Append(scans, NewScanRow(by, j)) ELSE scans

InsertedScanId == IF slots.scans THEN Len(scans) + 1 ELSE 0

\* Website read, scan row insert and URL discovery: none touches the job row.
createScan(w) ==
    /\ worker[w].pc = "site"
    /\ \E n \in 0..NumUrls :
          worker' = [worker EXCEPT ![w].pc = "p25", ![w].total = n,
                                   ![w].scan = InsertedScanId]
    /\ scans' = InsertScan("crawler", worker[w].job)
    /\ scansStarted' = [scansStarted EXCEPT ![worker[w].job] = Bump(@)]
    /\ UNCHANGED <<env, now, ticks, jobs, msgs, pub, retry, maint, wins, leases>>

\* The scan row is inserted and discovery throws (discoverFromSitemap builds
\* new URL(path, website.url) outside any try): control passes to the
\* catch block, where the scan is out of scope.
discoveryThrows(w) ==
    /\ worker[w].pc = "site"
    /\ worker' = [worker EXCEPT ![w].pc = "fail", ![w].scan = InsertedScanId]
    /\ scans' = InsertScan("crawler", worker[w].job)
    /\ scansStarted' = [scansStarted EXCEPT ![worker[w].job] = Bump(@)]
    /\ UNCHANGED <<env, now, ticks, jobs, msgs, pub, retry, maint, wins, leases>>

\* 'Website not found' or 'Failed to create scan': control passes to the
\* catch block with no scan row inserted.
processJobThrows(w) ==
    /\ worker[w].pc = "site"
    /\ worker' = [worker EXCEPT ![w].pc = "fail"]
    /\ UNCHANGED <<env, now, ticks, jobs, msgs, pub, retry, maint, wins, leases, scansStarted, scans>>

\* saveResults: one batch of up to 100 results; when the upsert of pages
\* fails the error is logged and the batch skipped, and nothing is thrown.
SavedResults(results, ok) == IF ok THEN results ELSE 0

\* .update({status: 'completed', ..., total_pages: results.length}).eq('id', scan.id)
CompletedScan(r, results, saved) ==
    [r EXCEPT !.status = "completed", !.total_pages = results, !.saved = saved]

\* saveResults, the scan and website updates, then
\* updateJobStatus(jobId, 'completed', 100, result). results holds the
\* fulfilled, non-null outcomes of processUrl.
completeJob(w) ==
    /\ worker[w].pc = "complete"
    /\ LET j == worker[w].job
       IN WriteJob(j, UpdatedRow(jobs[j], "completed", 100, FALSE, "null", now))
    /\ IF slots.scans
       THEN \E results \in 0..worker[w].processed, ok \in BOOLEAN :
               scans' = [scans EXCEPT ![worker[w].scan] =
                           CompletedScan(@, results, SavedResults(results, ok))]
       ELSE UNCHANGED scans
    /\ worker' = [worker EXCEPT ![w] = IdleWorker]
    /\ UNCHANGED <<env, now, ticks, msgs, pub, retry, maint, wins, scansStarted>>

\* catch (error): updateJobStatus(jobId, 'failed', 0, null, error.message)
failJob(w) ==
    /\ worker[w].pc = "fail"
    /\ LET j == worker[w].job
       IN WriteJob(j, UpdatedRow(jobs[j], "failed", 0, FALSE, "error", now))
    /\ worker' = [worker EXCEPT ![w] = IdleWorker]
    /\ UNCHANGED <<env, now, ticks, msgs, pub, retry, maint, wins, scansStarted, scans>>

(***************************************************************************)
(* job-maintenance cloud function                                          *)
(***************************************************************************)
\* Mutant of StuckJobs: .lte in place of .lt.
StuckJobsInclusive ==
    {j \in JobIds : /\ jobs[j].status = "running"
                    /\ jobs[j].started_at # NULL
                    /\ jobs[j].started_at <= now - StuckHours}

\* select id ... .eq('status', 'running').lt('started_at', twoHoursAgo)
StuckJobs ==
    {j \in JobIds : /\ jobs[j].status = "running"
                    /\ jobs[j].started_at # NULL
                    /\ jobs[j].started_at < now - StuckHours}

\* select id ... .in('status', ['completed', 'failed']).lt('completed_at', thirtyDaysAgo)
OldJobs ==
    {j \in JobIds : /\ jobs[j].status \in {"completed", "failed"}
                    /\ jobs[j].completed_at # NULL
                    /\ jobs[j].completed_at < now - OldJobDays * 24}

maintainFetchStuck ==
    /\ maint.pc = "idle"
    /\ maint' = [pc |-> IF StuckJobs # {} THEN "reset" ELSE "old", ids |-> StuckJobs]
    /\ UNCHANGED <<env, now, ticks, jobs, msgs, pub, worker, retry, wins, leases, scansStarted, scans>>

\* .update({status: 'failed', completed_at, error_message}).in('id', stuckJobs.map(...))
TimedOutRow(r, t) ==
    [r EXCEPT !.status = "failed", !.completed_at = t, !.error_message = "timeout"]

maintainResetStuck ==
    /\ maint.pc = "reset"
    /\ jobs' = [j \in JobIds |->
                  IF j \in maint.ids /\ Exists(j) THEN TimedOutRow(jobs[j], now) ELSE jobs[j]]
    /\ maint' = [pc |-> "old", ids |-> {}]
    /\ UNCHANGED <<env, now, ticks, msgs, pub, worker, retry, wins, leases, scansStarted, scans>>

maintainFetchOld ==
    /\ maint.pc = "old"
    /\ maint' = [pc |-> IF OldJobs # {} THEN "delete" ELSE "idle", ids |-> OldJobs]
    /\ UNCHANGED <<env, now, ticks, jobs, msgs, pub, worker, retry, wins, leases, scansStarted, scans>>

\* .delete().in('id', oldJobs.map(...))
maintainDeleteOld ==
    /\ maint.pc = "delete"
    /\ jobs' = [j \in JobIds |->
                  IF j \in maint.ids /\ Exists(j)
                  THEN [NoRow EXCEPT !.status = "deleted"] ELSE jobs[j]]
    /\ maint' = IdleMaint
    /\ UNCHANGED <<env, now, ticks, msgs, pub, worker, retry, wins, leases, scansStarted, scans>>

Next ==
    \/ Tick
    \/ \E j \in JobIds : triggerCrawl(j)
    \/ \E j \in JobIds : cancelJob(j)
    \/ \E c \in RetryCalls, j \in JobIds : retryRead(c, j)
    \/ \E c \in RetryCalls : retryWrite(c)
    \/ \E p \in Publishers : publishSelect(p)
    \/ \E p \in Publishers, j \in JobIds : publishMessage(p, j)
    \/ \E p \in Publishers, j \in JobIds : publishFailed(p, j)
    \/ \E p \in Publishers, j \in JobIds : publishUpdate(p, j)
    \/ \E w \in Workers, j \in JobIds : processJobStart(w, j)
    \/ \E w \in Workers : getJobStartTime(w)
    \/ \E w \in Workers : updateJobStatusRunning(w)
    \/ \E w \in Workers : createScan(w)
    \/ \E w \in Workers : discoveryThrows(w)
    \/ \E w \in Workers : processJobThrows(w)
    \/ \E w \in Workers : completeJob(w)
    \/ \E w \in Workers : failJob(w)
    \/ maintainFetchStuck
    \/ maintainResetStuck
    \/ maintainFetchOld
    \/ maintainDeleteOld

Spec == Init /\ [][Next]_vars

(***************************************************************************)
(* The dispatch path alone, with the history counters kept: two publisher  *)
(* invocations, two crawler requests, and the API calls.                   *)
(***************************************************************************)
InitLease ==
    /\ slots = [pub |-> NumPublishers, worker |-> NumWorkers, retry |-> 1, jobs |-> 1, scans |-> FALSE]
    /\ tracking = TRUE
    /\ InitRows

NextLease ==
    \/ \E j \in JobIds : triggerCrawl(j)
    \/ \E j \in JobIds : cancelJob(j)
    \/ \E c \in RetryCalls, j \in JobIds : retryRead(c, j)
    \/ \E c \in RetryCalls : retryWrite(c)
    \/ \E p \in Publishers : publishSelect(p)
    \/ \E p \in Publishers, j \in JobIds : publishMessage(p, j)
    \/ \E p \in Publishers, j \in JobIds : publishFailed(p, j)
    \/ \E p \in Publishers, j \in JobIds : publishUpdate(p, j)
    \/ \E w \in Workers, j \in JobIds : processJobStart(w, j)
    \/ \E w \in Workers : getJobStartTime(w)
    \/ \E w \in Workers : updateJobStatusRunning(w)
    \/ \E w \in Workers : createScan(w)
    \/ \E w \in Workers : discoveryThrows(w)
    \/ \E w \in Workers : processJobThrows(w)
    \/ \E w \in Workers : completeJob(w)
    \/ \E w \in Workers : failJob(w)

SpecLease == InitLease /\ [][NextLease]_vars

(***************************************************************************)
(* The scans table: scans triggered from the application and processed by  *)
(* two crawler requests. The job rows of the model belong to one website.  *)
(***************************************************************************)
\* useScanRuns.triggerScan: insert the job (status queued), then insert a
\* scan row with status 'running'. No other handler reads that scan row, so
\* the two inserts are one step.
triggerScan(j) ==
    /\ j <= slots.jobs
    /\ jobs[j].status = "none"
    /\ \A i \in JobIds : i < j => jobs[i].status # "none"
    /\ jobs' = [jobs EXCEPT ![j] = NewJobRow]
    /\ scans' = InsertScan("app", j)
    /\ UNCHANGED <<env, now, ticks, msgs, pub, worker, retry, maint, wins, leases, scansStarted>>

InitScan ==
    /\ slots = [pub |-> 1, worker |-> NumWorkers, retry |-> 1, jobs |-> MaxJobs, scans |-> TRUE]
    /\ tracking = FALSE
    /\ InitRows

NextScan ==
    \/ \E j \in JobIds : triggerCrawl(j)
    \/ \E j \in JobIds : triggerScan(j)
    \/ \E j \in JobIds : cancelJob(j)
    \/ \E p \in Publishers : publishSelect(p)
    \/ \E p \in Publishers, j \in JobIds : publishMessage(p, j)
    \/ \E p \in Publishers, j \in JobIds : publishFailed(p, j)
    \/ \E p \in Publishers, j \in JobIds : publishUpdate(p, j)
    \/ \E w \in Workers, j \in JobIds : processJobStart(w, j)
    \/ \E w \in Workers : getJobStartTime(w)
    \/ \E w \in Workers : updateJobStatusRunning(w)
    \/ \E w \in Workers : createScan(w)
    \/ \E w \in Workers : discoveryThrows(w)
    \/ \E w \in Workers : processJobThrows(w)
    \/ \E w \in Workers : completeJob(w)
    \/ \E w \in Workers : failJob(w)

SpecScan == InitScan /\ [][NextScan]_vars

(***************************************************************************)
(* Jobs scheduled for later: the jobs table has a scheduled_for column and *)
(* an insert policy for the owner of the website; the publisher runs on    *)
(* whatever rows are queued.                                               *)
(***************************************************************************)
\* insert into jobs (..., status 'queued', scheduled_for t) with t in the future.
insertScheduledJob(j, t) ==
    /\ j <= slots.jobs
    /\ jobs[j].status = "none"
    /\ \A i \in JobIds : i < j => jobs[i].status # "none"
    /\ t > now
    /\ jobs' = [jobs EXCEPT ![j] = [NewJobRow EXCEPT !.scheduled_for = t]]
    /\ UNCHANGED <<env, now, ticks, msgs, pub, worker, retry, maint, wins, leases, scansStarted, scans>>

InitSchedule ==
    /\ slots = [pub |-> 1, worker |-> 1, retry |-> 1, jobs |-> MaxJobs, scans |-> FALSE]
    /\ tracking = FALSE
    /\ InitRows

NextSchedule ==
    \/ Tick
    \/ \E j \in JobIds : triggerCrawl(j)
    \/ \E j \in JobIds, t \in ClockValues(MaxTick) : insertScheduledJob(j, t)
    \/ \E p \in Publishers : publishSelect(p)
    \/ \E p \in Publishers, j \in JobIds : publishMessage(p, j)
    \/ \E p \in Publishers, j \in JobIds : publishFailed(p, j)
    \/ \E p \in Publishers, j \in JobIds : publishUpdate(p, j)

SpecSchedule == InitSchedule /\ [][NextSchedule]_vars

(***************************************************************************)
(* One maintenance cycle on its own: the table holds any rows the queue    *)
(* can have produced by the time of the cycle, and nothing else writes.    *)
(***************************************************************************)
\* Rows of jobs that were triggered, leased at t, and completed, failed or
\* cancelled at u.
RowsAt(k) ==
    {NewJobRow}
    \cup {LeasedRow(NewJobRow, t) : t \in ClockValues(k)}
    \cup {UpdatedRow(LeasedRow(NewJobRow, x[2]), x[1],
                     IF x[1] = "completed" THEN 100 ELSE 0,
                     FALSE, IF x[1] = "failed" THEN "error" ELSE "null", x[3]) :
              x \in {y \in {"completed", "failed"} \X ClockValues(k) \X ClockValues(k) :
                        y[3] >= y[2]}}
    \cup {CancelledRow(NewJobRow, t) : t \in ClockValues(k)}

InitReaper ==
    /\ slots = [pub |-> 1, worker |-> 1, retry |-> 1, jobs |-> MaxJobs, scans |-> FALSE]
    /\ tracking = FALSE
    /\ ticks \in 0..MaxTick
    /\ now = ClockAt(ticks)
    /\ jobs \in [JobIds -> RowsAt(ticks)]
    /\ msgs = [j \in JobIds |-> 0]
    /\ pub = [p \in Publishers |-> [j \in JobIds |-> "none"]]
    /\ worker = [w \in Workers |-> IdleWorker]
    /\ retry = [c \in RetryCalls |-> IdleRetry]
    /\ maint = IdleMaint
    /\ wins = [j \in JobIds |-> 0]
    /\ leases = [j \in JobIds |-> 0]
    /\ scansStarted = [j \in JobIds |-> 0]
    /\ scans = <<>>
    /\ sites = [s \in SiteIds |-> NewSiteRow]
    /\ sweep = IdleSweep
    /\ pjobs = [j \in ProcJobIds |-> "none"]
    /\ proc = [r \in Requests |-> IdleProc]
    /\ pat = NoCall
    /\ crawl = NoCall
    /\ disc = NoCall
    /\ comp = NoCall
    /\ sel = NoCall

NextReaper ==
    \/ maintainFetchStuck
    \/ maintainResetStuck
    \/ maintainFetchOld
    \/ maintainDeleteOld

SpecReaper == InitReaper /\ [][NextReaper]_vars

(***************************************************************************)
(* useWebsites: archive, un-archive and the retention sweep                *)
(***************************************************************************)
ArchiveRetentionDays == 30

\* An update field that the caller left undefined.
Undefined == 0 - 2

\* updateWebsite(id, {status, archivedAt}): a field enters dbUpdates only if
\* it is not undefined; the update names the row by id.
UpdatedSite(r, status, archivedAt) ==
    LET r1 == [r EXCEPT !.status = status]
    IN IF r.status = "deleted" THEN r
       ELSE IF archivedAt # Undefined THEN [r1 EXCEPT !.archived_at = archivedAt] ELSE r1

\* updateWebsite(id, {status: 'archived', archivedAt: new Date()})
archiveWebsite(s) ==
    /\ sites[s].status # "deleted"
    /\ sites' = [sites EXCEPT ![s] = UpdatedSite(@, "archived", now)]
    /\ UNCHANGED <<slots, tracking, libVars, procVars, sweep, now, ticks, queueVars>>

\* updateWebsite(id, {status: 'active', archivedAt: undefined})
unarchiveWebsite(s) ==
    /\ sites[s].status # "deleted"
    /\ sites' = [sites EXCEPT ![s] = UpdatedSite(@, "active", Undefined)]
    /\ UNCHANGED <<slots, tracking, libVars, procVars, sweep, now, ticks, queueVars>>

\* checkForExpiredArchives computes retentionThreshold from Date.now() ...
sweepStart ==
    /\ sweep.pc = "idle"
    /\ sweep' = [pc |-> "delete", threshold |-> now - ArchiveRetentionDays * 24]
    /\ UNCHANGED <<slots, tracking, libVars, procVars, sites, now, ticks, queueVars>>

\* Mutant of SweptSite: the delete without .eq('status', 'archived').
SweptSiteAnyStatus(r, threshold) ==
    IF r.archived_at # NULL /\ r.archived_at < threshold
    THEN [status |-> "deleted", archived_at |-> NULL] ELSE r

\* ... and sends .delete().eq('status', 'archived').lt('archived_at', threshold).
SweptSite(r, threshold) ==
    IF r.status = "archived" /\ r.archived_at # NULL /\ r.archived_at < threshold
    THEN [status |-> "deleted", archived_at |-> NULL] ELSE r

sweepDelete ==
    /\ sweep.pc = "delete"
    /\ sites' = [s \in SiteIds |-> SweptSite(sites[s], sweep.threshold)]
    /\ sweep' = IdleSweep
    /\ UNCHANGED <<slots, tracking, libVars, procVars, now, ticks, queueVars>>

InitSites ==
    /\ slots = [pub |-> 1, worker |-> 1, retry |-> 1, jobs |-> 1, scans |-> FALSE]
    /\ tracking = FALSE
    /\ InitRows

NextSites ==
    \/ Tick
    \/ \E s \in SiteIds : archiveWebsite(s)
    \/ \E s \in SiteIds : unarchiveWebsite(s)
    \/ sweepStart
    \/ sweepDelete

SpecSites == InitSites /\ [][NextSites]_vars

(***************************************************************************)
(* job-processor edge function: JobProcessor.processQueuedJobs             *)
(***************************************************************************)
MaxConcurrentJobs == 3

\* A job row is inserted with status queued (triggerCrawl).
procEnqueue(j) ==
    /\ pjobs[j] = "none"
    /\ \A i \in ProcJobIds : i < j => pjobs[i] # "none"
    /\ pjobs' = [pjobs EXCEPT ![j] = "queued"]
    /\ UNCHANGED <<slots, tracking, libVars, siteVars, proc, now, ticks, queueVars>>

\* case 'process_queue': the handler builds a new JobProcessor for the
\* request (isProcessing false, activeJobs empty) and enters the loop.
procStart(r) ==
    /\ proc[r] = IdleProc
    /\ proc' = [proc EXCEPT ![r].pc = "select"]
    /\ UNCHANGED <<slots, tracking, libVars, siteVars, pjobs, now, ticks, queueVars>>

ProcQueued == {j \in ProcJobIds : pjobs[j] = "queued"}

\* while (activeJobs.size < maxConcurrentJobs): select the next queued job
\* (.order('created_at').limit(1)); no row, or a full set, leaves the loop
\* and the request returns while its jobs are still being processed.
procSelect(r) ==
    /\ proc[r].pc = "select"
    /\ proc' = [proc EXCEPT ![r] =
                   IF Cardinality(proc[r].activeJobs) < MaxConcurrentJobs /\ ProcQueued # {}
                   THEN [@ EXCEPT !.pc = "update",
                                  !.job = CHOOSE j \in ProcQueued :
                                              \A i \in ProcQueued : j <= i]
                   ELSE [@ EXCEPT !.pc = "returned", !.job = 0]]
    /\ UNCHANGED <<slots, tracking, libVars, siteVars, pjobs, now, ticks, queueVars>>

\* .update({status: 'running', started_at, progress: 0}).eq('id', job.id),
\* then processJobAsync(job), which adds the id to activeJobs before its
\* first await.
procLease(r) ==
    /\ proc[r].pc = "update"
    /\ pjobs' = [pjobs EXCEPT ![proc[r].job] = "running"]
    /\ proc' = [proc EXCEPT ![r].pc = "select", ![r].job = 0,
                            ![r].activeJobs = @ \cup {proc[r].job}]
    /\ UNCHANGED <<slots, tracking, libVars, siteVars, now, ticks, queueVars>>

\* The crawler service answers: on a 2xx the job was completed by the
\* crawler, otherwise the catch block marks it failed; finally the id
\* leaves activeJobs.
procFinish(r, j, ok) ==
    /\ j \in proc[r].activeJobs
    /\ pjobs' = [pjobs EXCEPT ![j] = IF ok THEN "completed" ELSE "failed"]
    /\ proc' = [proc EXCEPT ![r].activeJobs = @ \ {j}]
    /\ UNCHANGED <<slots, tracking, libVars, siteVars, now, ticks, queueVars>>

\* The JobProcessor of a request that returned and has no job left is gone.
procDone(r) ==
    /\ proc[r].pc = "returned"
    /\ proc[r].activeJobs = {}
    /\ proc' = [proc EXCEPT ![r] = IdleProc]
    /\ UNCHANGED <<slots, tracking, libVars, siteVars, pjobs, now, ticks, queueVars>>

InitProcessor ==
    /\ slots = [pub |-> 1, worker |-> 1, retry |-> 1, jobs |-> 1, scans |-> FALSE]
    /\ tracking = FALSE
    /\ InitRows

NextProcessor ==
    \/ \E j \in ProcJobIds : procEnqueue(j)
    \/ \E r \in Requests : procStart(r)
    \/ \E r \in Requests : procSelect(r)
    \/ \E r \in Requests : procLease(r)
    \/ \E r \in Requests, j \in ProcJobIds, ok \in BOOLEAN : procFinish(r, j, ok)
    \/ \E r \in Requests : procDone(r)

SpecProcessor == InitProcessor /\ [][NextProcessor]_vars

(***************************************************************************)
(* RobustCrawler.matchesPatterns and matchesPattern. A string is the       *)
(* sequence of its characters.                                             *)
(***************************************************************************)
\* "https://a.example/"
SiteRoot ==
    <<"h", "t", "t", "p", "s", ":", "/", "/", "a", ".", "e", "x", "a", "m",
    "p", "l", "e", "/">>

\* "https://a.example/products/a"
UrlProductsA ==
    <<"h", "t", "t", "p", "s", ":", "/", "/", "a", ".", "e", "x", "a", "m",
    "p", "l", "e", "/", "p", "r", "o", "d", "u", "c", "t", "s", "/", "a">>

\* "https://a.example/products/private/x"
UrlPrivateX ==
    <<"h", "t", "t", "p", "s", ":", "/", "/", "a", ".", "e", "x", "a", "m",
    "p", "l", "e", "/", "p", "r", "o", "d", "u", "c", "t", "s", "/", "p",
    "r", "i", "v", "a", "t", "e", "/", "x">>

\* "https://a.example/about"
UrlAbout ==
    <<"h", "t", "t", "p", "s", ":", "/", "/", "a", ".", "e", "x", "a", "m",
    "p", "l", "e", "/", "a", "b", "o", "u", "t">>

\* "/products/*"
GlobProducts ==
    <<"/", "p", "r", "o", "d", "u", "c", "t", "s", "/", "*">>

\* "/products/private/*"
GlobPrivate ==
    <<"/", "p", "r", "o", "d", "u", "c", "t", "s", "/", "p", "r", "i", "v",
    "a", "t", "e", "/", "*">>

\* "/a?out"
GlobAbout ==
    <<"/", "a", "?", "o", "u", "t">>

PatternUrls == {SiteRoot, UrlProductsA, UrlPrivateX, UrlAbout}

Globs == {GlobProducts, GlobPrivate, GlobAbout}

\* s.replace(/X/g, to): every character X of s replaced by the string to.
RECURSIVE ReplaceAll(_, _, _)
ReplaceAll(s, x, to) ==
    IF s = <<>> THEN <<>>
    ELSE (IF Head(s) = x THEN to ELSE <<Head(s)>>) \o ReplaceAll(Tail(s), x, to)

\* pattern.replace(/\*/g, '.*').replace(/\?/g, '.'): the source of the regular
\* expression. No other character is escaped.
RegexSource(pattern) == ReplaceAll(ReplaceAll(pattern, "*", <<".", "*">>), "?", <<".">>)

\* The regular expression re, from its k-th character on, matches a prefix
\* of s that starts at position i: "." is any character, ".*" any run of
\* characters, every other character of the model's alphabet itself.
RECURSIVE MatchAt(_, _, _, _)
MatchAt(re, k, s, i) ==
    IF k > Len(re) THEN TRUE
    ELSE IF re[k] = "." /\ k < Len(re) /\ re[k + 1] = "*"
         THEN \E j \in i..(Len(s) + 1) : MatchAt(re, k + 2, s, j)
    ELSE IF i > Len(s) THEN FALSE
    ELSE (re[k] = "." \/ re[k] = s[i]) /\ MatchAt(re, k + 1, s, i + 1)

\* new RegExp(source).test(s): a match anywhere in s; the expression is not
\* anchored.
RegExpTest(re, s) == \E i \in 1..(Len(s) + 1) : MatchAt(re, 1, s, i)

matchesPattern(url, pattern) == RegExpTest(RegexSource(pattern), url)

\* for (const pattern of excludePatterns) if (matchesPattern(url, pattern)) return false
RECURSIVE ExcludeLoop(_, _)
ExcludeLoop(url, excludePatterns) ==
    IF excludePatterns = <<>> THEN FALSE
    ELSE IF matchesPattern(url, Head(excludePatterns)) THEN TRUE
    ELSE ExcludeLoop(url, Tail(excludePatterns))

\* Mutant of IncludeLoop: the enabled flag is not looked at.
RECURSIVE IncludeLoopAnyFlag(_, _)
IncludeLoopAnyFlag(url, includePatterns) ==
    IF includePatterns = <<>> THEN FALSE
    ELSE IF matchesPattern(url, Head(includePatterns).pattern) THEN TRUE
    ELSE IncludeLoopAnyFlag(url, Tail(includePatterns))

\* for (const patternConfig of includePatterns)
\*   if (patternConfig.enabled && matchesPattern(url, patternConfig.pattern)) return true
RECURSIVE IncludeLoop(_, _)
IncludeLoop(url, includePatterns) ==
    IF includePatterns = <<>> THEN FALSE
    ELSE IF Head(includePatterns).enabled /\ matchesPattern(url, Head(includePatterns).pattern)
         THEN TRUE
    ELSE IncludeLoop(url, Tail(includePatterns))

matchesPatterns(url, includePatterns, excludePatterns) ==
    IF ExcludeLoop(url, excludePatterns) THEN FALSE
    ELSE IF Len(includePatterns) = 0 THEN TRUE
    ELSE IncludeLoop(url, includePatterns)

\* Sequences of at most n elements of S.
SeqUpTo(S, n) == UNION {[1..k -> S] : k \in 0..n}

PatternConfigs == [pattern : Globs, enabled : BOOLEAN]

\* The arguments of a call.
PatternCalls ==
    [pc : {"call"}, url : PatternUrls, includePatterns : SeqUpTo(PatternConfigs, MaxPatterns),
     excludePatterns : SeqUpTo(Globs, MaxPatterns), result : {FALSE}]

matchesPatternsCall ==
    /\ pat.pc = "call"
    /\ pat' = [pat EXCEPT !.pc = "done",
                          !.result = matchesPatterns(pat.url, pat.includePatterns,
                                                     pat.excludePatterns)]
    /\ UNCHANGED <<slots, tracking, siteVars, procVars, crawl, disc, comp, sel, now, ticks, queueVars>>

InitPatterns ==
    /\ slots = [pub |-> 1, worker |-> 1, retry |-> 1, jobs |-> 1, scans |-> FALSE]
    /\ tracking = FALSE
    /\ InitTables
    /\ pat \in PatternCalls
    /\ crawl = NoCall
    /\ disc = NoCall
    /\ comp = NoCall
    /\ sel = NoCall

NextPatterns == matchesPatternsCall

SpecPatterns == InitPatterns /\ [][NextPatterns]_vars

(***************************************************************************)
(* RobustCrawler.discoverFromCrawling over a fixed web of six pages. The   *)
(* callbacks of one batch run their synchronous part (the visited check    *)
(* and visited.add) one after the other before any fetch resolves, so a    *)
(* batch is one step.                                                      *)
(***************************************************************************)
\* "https://a.example/products/b"
UrlProductsB ==
    <<"h", "t", "t", "p", "s", ":", "/", "/", "a", ".", "e", "x", "a", "m",
    "p", "l", "e", "/", "p", "r", "o", "d", "u", "c", "t", "s", "/", "b">>

\* "https://b.example/products/c", a page of another site
UrlExternal ==
    <<"h", "t", "t", "p", "s", ":", "/", "/", "b", ".", "e", "x", "a", "m",
    "p", "l", "e", "/", "p", "r", "o", "d", "u", "c", "t", "s", "/", "c">>

CrawlUrls == {SiteRoot, UrlProductsA, UrlProductsB, UrlPrivateX, UrlAbout, UrlExternal}

\* extractLinks(html, url): the links of each page of the web, resolved.
Links(url) ==
    CASE url = SiteRoot -> <<UrlProductsA, UrlPrivateX, UrlAbout>>
      [] url = UrlProductsA -> <<UrlProductsB, UrlExternal, SiteRoot>>
      [] url = UrlProductsB -> <<UrlProductsA>>
      [] url = UrlAbout -> <<UrlExternal>>
      [] OTHER -> <<>>

\* a || b of JavaScript on numbers: b when a is 0 (or missing).
OrDefault(a, b) == IF a = 0 THEN b ELSE a

\* const maxDepth = crawlSettings.maxDepth || 3
EffectiveMaxDepth == OrDefault(crawl.maxDepth, DefaultMaxDepth)

\* const maxPages = crawlSettings.maxPages || 10000
EffectiveMaxPages == OrDefault(crawl.maxPages, DefaultMaxPages)

\* The settings of a crawl and the locals at the entry of the loop. down:
\* the pages that answer with an error status.
CrawlCalls ==
    [pc : {"loop"},
     maxDepth : 0..MaxDepthSetting,
     maxPages : 0..MaxPagesSetting,
     maxConcurrency : 1..MaxCrawlConcurrency,
     includePatterns : {<<>>, <<[pattern |-> GlobProducts, enabled |-> TRUE]>>},
     excludePatterns : {<<>>, <<GlobPrivate>>},
     followExternalLinks : BOOLEAN,
     down : {{}, {UrlProductsA}},
     queue : {<<[url |-> SiteRoot, depth |-> 0]>>},
     visited : {{}},
     discovered : {{}},
     requests : {<<>>}]

\* Mutant of Entered: every item of the batch is tested against the visited
\* set as it was when the batch started.
EnteredUnmarked(batch, visited) ==
    SelectSeq(batch, LAMBDA item : ~(item.url \in visited \/ item.depth > EffectiveMaxDepth))

\* The items of the batch that pass `if (visited.has(url) || depth > maxDepth)
\* return []`, each adding its URL to visited before the next is looked at.
RECURSIVE Entered(_, _)
Entered(batch, visited) ==
    IF batch = <<>> THEN <<>>
    ELSE LET item == Head(batch)
         IN IF item.url \in visited \/ item.depth > EffectiveMaxDepth
            THEN Entered(Tail(batch), visited)
            ELSE <<item>> \o Entered(Tail(batch), visited \cup {item.url})

Range(q) == {q[i] : i \in DOMAIN q}

\* The items whose URL passes matchesPatterns: the pages that are fetched.
Requested(entered) ==
    SelectSeq(entered, LAMBDA item :
        matchesPatterns(item.url, crawl.includePatterns, crawl.excludePatterns))

\* The fetched pages that answer 2xx with text/html.
Answered(entered) == SelectSeq(Requested(entered), LAMBDA item : item.url \notin crawl.down)

\* What the callbacks return, in batch order: for a page below maxDepth its
\* links that are not in visited, one level deeper.
RECURSIVE NewUrls(_, _)
NewUrls(answered, visited) ==
    IF answered = <<>> THEN <<>>
    ELSE LET item == Head(answered)
             links == IF item.depth < EffectiveMaxDepth
                      THEN SelectSeq(Links(item.url), LAMBDA link : link \notin visited)
                      ELSE <<>>
         IN [i \in DOMAIN links |-> [url |-> links[i], depth |-> item.depth + 1]]
              \o NewUrls(Tail(answered), visited)

\* while (queue.length > 0 && discovered.size < maxPages)
CrawlLoopGuard ==
    Len(crawl.queue) > 0 /\ Cardinality(crawl.discovered) < EffectiveMaxPages

\* One iteration: queue.splice(0, maxConcurrency), the callbacks,
\* Promise.all, queue.push of every result.
crawlBatch ==
    /\ crawl.pc = "loop"
    /\ CrawlLoopGuard
    /\ LET n == Min(crawl.maxConcurrency, Len(crawl.queue))
           batch == SubSeq(crawl.queue, 1, n)
           rest == SubSeq(crawl.queue, n + 1, Len(crawl.queue))
           entered == Entered(batch, crawl.visited)
           visited == crawl.visited \cup {item.url : item \in Range(entered)}
           answered == Answered(entered)
       IN crawl' = [crawl EXCEPT
                      !.queue = rest \o NewUrls(answered, visited),
                      !.visited = visited,
                      !.discovered = @ \cup {item.url : item \in Range(answered)},
                      !.requests = @ \o Requested(entered)]
    /\ UNCHANGED <<slots, tracking, siteVars, procVars, pat, disc, comp, sel, now, ticks, queueVars>>

\* return Array.from(discovered)
crawlReturn ==
    /\ crawl.pc = "loop"
    /\ ~CrawlLoopGuard
    /\ crawl' = [crawl EXCEPT !.pc = "done"]
    /\ UNCHANGED <<slots, tracking, siteVars, procVars, pat, disc, comp, sel, now, ticks, queueVars>>

InitCrawl ==
    /\ slots = [pub |-> 1, worker |-> 1, retry |-> 1, jobs |-> 1, scans |-> FALSE]
    /\ tracking = FALSE
    /\ InitTables
    /\ pat = NoCall
    /\ crawl \in CrawlCalls
    /\ disc = NoCall
    /\ comp = NoCall
    /\ sel = NoCall

NextCrawl ==
    \/ crawlBatch
    \/ crawlReturn

SpecCrawl == InitCrawl /\ [][NextCrawl]_vars

(***************************************************************************)
(* A sitemap scan on its own: RobustCrawler.discoverFromSitemap and        *)
(* parseSitemap over a fixed set of sitemap documents, then the rest of    *)
(* processJob. The site URL is an absolute http URL, as the website form   *)
(* requires.                                                               *)
(***************************************************************************)
\* The documents of the web, by URL: a sitemap that answers HTTP 404, one
\* whose fetch is rejected, two URL sets that share a page, a page that is
\* no sitemap, and a sitemap index over four of them.
SitemapDoc(url) ==
    CASE url = "/gone.xml" -> [kind |-> "http404", locs |-> <<>>]
      [] url = "/down.xml" -> [kind |-> "rejected", locs |-> <<>>]
      [] url = "/a.xml" -> [kind |-> "urlset", locs |-> <<"/p1", "/p2">>]
      [] url = "/b.xml" -> [kind |-> "urlset", locs |-> <<"/p2", "/p3">>]
      [] url = "/page.html" -> [kind |-> "urlset", locs |-> <<>>]
      [] url = "/index.xml" ->
            [kind |-> "sitemapindex", locs |-> <<"/a.xml", "/gone.xml", "/b.xml", "/down.xml">>]

SitemapLocations == {"/gone.xml", "/down.xml", "/a.xml", "/b.xml", "/page.html", "/index.xml"}

\* parseSitemap(sitemapUrl, settings): a response that is not ok and a
\* rejected fetch both end in the catch block of parseSitemap, which logs
\* and falls through to `return urls`.
RECURSIVE parseSitemap(_, _)
parseSitemap(sitemapUrl, followSitemapIndex) ==
    LET doc == SitemapDoc(sitemapUrl)
        ChildUrls[k \in 0..Len(doc.locs)] ==
            IF k = 0 THEN <<>>
            ELSE ChildUrls[k - 1] \o parseSitemap(doc.locs[k], followSitemapIndex)
    IN CASE doc.kind \in {"http404", "rejected"} -> <<>>
         [] doc.kind = "sitemapindex" ->
               IF followSitemapIndex THEN ChildUrls[Len(doc.locs)] ELSE <<>>
         [] doc.kind = "urlset" -> doc.locs

\* [...new Set(urls)]: first occurrences, in order.
RECURSIVE Dedupe(_)
Dedupe(urls) ==
    IF urls = <<>> THEN <<>>
    ELSE LET front == Dedupe(SubSeq(urls, 1, Len(urls) - 1))
             last == urls[Len(urls)]
         IN IF last \in Range(front) THEN front ELSE Append(front, last)

\* Mutant of PushAll: the URLs of a sitemap replace those found so far.
PushAllReplaces(urls, found) == found

\* urls.push(...sitemapUrls)
PushAll(urls, found) == urls \o found

SitemapConfigs == [url : SitemapLocations, enabled : BOOLEAN]

\* processUrl: the response code of a page result (0: the fetch threw).
ResponseCodes == {200, 404, 0}

\* generateContentHash(html) of a page as it is now; processUrl gives the
\* empty hash to a page whose response is not ok or whose fetch threw.
ContentHash(response_code) == IF response_code = 200 THEN "h2" ELSE ""

\* The snapshots of the previous scan of the site, as url and content_hash:
\* a first scan, a page scanned before with the content it has now, and a
\* page scanned before with other content next to a page no sitemap lists.
PreviousScans ==
    {{},
     {[url |-> "/p1", content_hash |-> "h2"]},
     {[url |-> "/p1", content_hash |-> "h1"], [url |-> "/p4", content_hash |-> "h1"]}}

\* A scans row as processJob inserts it: the counters take their defaults.
NewScan ==
    [status |-> "running", total_pages |-> 0, new_pages |-> 0, changed_pages |-> 0,
     removed_pages |-> 0, error_pages |-> 0]

\* The settings of a sitemap scan, the job at progress 0 and the scan row
\* just inserted. probe: the document found at /sitemap.xml of the site.
DiscoveryCalls ==
    [pc : {"start"},
     urls : SeqUpTo(SitemapConfigs, MaxSitemaps),
     autoDetect : BOOLEAN,
     followSitemapIndex : BOOLEAN,
     probe : {"/gone.xml", "/a.xml"},
     sitemapUrls : {<<>>},
     next : {1},
     found : {<<>>},
     results : {<<>>},
     job : {[status |-> "running", progress |-> 0]},
     scan : {NewScan},
     previous : PreviousScans,
     site : {[status |-> "active", total_pages |-> 0, new_pages |-> 0, changed_pages |-> 0,
              removed_pages |-> 0]}]

\* discoverFromSitemap up to the loop: the configured sitemaps or, when
\* there is none and autoDetect is set, the three common locations.
discoverStart ==
    /\ disc.pc = "start"
    /\ disc' = [disc EXCEPT
                  !.pc = "sitemaps",
                  !.sitemapUrls =
                      IF Len(disc.urls) = 0 /\ disc.autoDetect
                      THEN <<[url |-> disc.probe, enabled |-> TRUE],
                             [url |-> "/gone.xml", enabled |-> TRUE],
                             [url |-> "/gone.xml", enabled |-> TRUE]>>
                      ELSE disc.urls]
    /\ UNCHANGED <<slots, tracking, siteVars, procVars, pat, crawl, comp, sel, now, ticks, queueVars>>

\* One iteration of `for (const sitemapConfig of sitemapUrls)`.
discoverSitemap ==
    /\ disc.pc = "sitemaps"
    /\ disc.next <= Len(disc.sitemapUrls)
    /\ LET sitemapConfig == disc.sitemapUrls[disc.next]
       IN disc' = [disc EXCEPT
                     !.next = @ + 1,
                     !.found = IF sitemapConfig.enabled
                               THEN PushAll(@, parseSitemap(sitemapConfig.url,
                                                            disc.followSitemapIndex))
                               ELSE @]
    /\ UNCHANGED <<slots, tracking, siteVars, procVars, pat, crawl, comp, sel, now, ticks, queueVars>>

\* return [...new Set(urls)], then updateJobStatus(jobId, 'running', 25).
discoverReturn ==
    /\ disc.pc = "sitemaps"
    /\ disc.next > Len(disc.sitemapUrls)
    /\ disc' = [disc EXCEPT !.pc = "process", !.found = Dedupe(@), !.job.progress = 25]
    /\ UNCHANGED <<slots, tracking, siteVars, procVars, pat, crawl, comp, sel, now, ticks, queueVars>>

\* processUrlsBatch: one result per URL, whatever its response code; then
\* updateJobStatus(jobId, 'running', 75).
processUrlsBatch ==
    /\ disc.pc = "process"
    /\ \E codes \in [DOMAIN disc.found -> ResponseCodes] :
          disc' = [disc EXCEPT !.pc = "save", !.results = codes, !.job.progress = 75]
    /\ UNCHANGED <<slots, tracking, siteVars, procVars, pat, crawl, comp, sel, now, ticks, queueVars>>

\* results.filter(r => ...).length
CountResults(results, Test(_)) == Cardinality({i \in DOMAIN results : Test(results[i])})

\* saveResults, the update of the scan row, the update of the website row
\* (last_scan, total_pages, new_pages) and updateJobStatus 'completed'.
finishScan ==
    /\ disc.pc = "save"
    /\ disc' = [disc EXCEPT
                  !.pc = "done",
                  !.scan = [@ EXCEPT
                              !.status = "completed",
                              !.total_pages = Len(disc.results),
                              !.new_pages = CountResults(disc.results, LAMBDA c : c = 200),
                              !.error_pages = CountResults(disc.results, LAMBDA c : c >= 400)],
                  !.site.total_pages = Len(disc.results),
                  !.site.new_pages = CountResults(disc.results, LAMBDA c : c = 200),
                  !.job = [status |-> "completed", progress |-> 100]]
    /\ UNCHANGED <<slots, tracking, siteVars, procVars, pat, crawl, comp, sel, now, ticks, queueVars>>

InitDiscovery ==
    /\ slots = [pub |-> 1, worker |-> 1, retry |-> 1, jobs |-> 1, scans |-> FALSE]
    /\ tracking = FALSE
    /\ InitTables
    /\ pat = NoCall
    /\ crawl = NoCall
    /\ disc \in DiscoveryCalls
    /\ comp = NoCall
    /\ sel = NoCall

NextDiscovery ==
    \/ discoverStart
    \/ discoverSitemap
    \/ discoverReturn
    \/ processUrlsBatch
    \/ finishScan

SpecDiscovery == InitDiscovery /\ [][NextDiscovery]_vars

(***************************************************************************)
(* useRunComparison: compareHeaders, compareSnapshots and the comparison   *)
(* of two runs. A snapshot array is a sequence; a Map built from it keeps  *)
(* the first position and the last value of each key.                      *)
(***************************************************************************)
\* A property that is not set (JavaScript undefined).
Absent == "undefined"

FieldChange(field, type, oldValue, newValue, impact) ==
    [field |-> field, type |-> type, oldValue |-> oldValue, newValue |-> newValue,
     impact |-> impact]

\* The entries of new Map(headers.map((h, i) => [`${h.level}-${i}`, h])): the
\* key, written <<level, i>>, holds the position of the heading in the whole
\* list, counted from 0.
HeaderEntries(headers) ==
    [n \in DOMAIN headers |-> [key |-> <<headers[n].level, n - 1>>, header |-> headers[n]]]

\* map.has(key)
HasHeaderKey(headers, key) ==
    \E n \in DOMAIN headers : HeaderEntries(headers)[n].key = key

\* Mutant of HeaderImpact: only an h1 heading is of high impact.
HeaderImpactTopLevel(header) == IF header.level <= 1 THEN "high" ELSE "medium"

\* header.level <= 2 ? 'high' : 'medium'
HeaderImpact(header) == IF header.level <= 2 THEN "high" ELSE "medium"

HeaderField(header) == "header-h" \o ToString(header.level)

\* F applied to every element of q.
MapSeq(q, F(_)) == [n \in DOMAIN q |-> F(q[n])]

\* compareHeaders(baseHeaders, compareHeaders): the removed, then the added,
\* then the modified headings.
compareHeaders(baseHeaders, otherHeaders) ==
    MapSeq(SelectSeq(HeaderEntries(baseHeaders),
                     LAMBDA e : ~HasHeaderKey(otherHeaders, e.key)),
           LAMBDA e : FieldChange(HeaderField(e.header), "removed", e.header.text, Absent,
                                  HeaderImpact(e.header)))
    \o MapSeq(SelectSeq(HeaderEntries(otherHeaders),
                        LAMBDA e : ~HasHeaderKey(baseHeaders, e.key)),
              LAMBDA e : FieldChange(HeaderField(e.header), "added", Absent, e.header.text,
                                     HeaderImpact(e.header)))
    \o MapSeq(SelectSeq(HeaderEntries(baseHeaders),
                        LAMBDA e : /\ HasHeaderKey(otherHeaders, e.key)
                                   /\ otherHeaders[e.key[2] + 1].text # e.header.text),
              LAMBDA e : FieldChange(HeaderField(e.header), "modified", e.header.text,
                                     otherHeaders[e.key[2] + 1].text,
                                     HeaderImpact(e.header)))

\* breadcrumbs.join(' > ')
RECURSIVE Join(_)
Join(breadcrumbs) ==
    IF breadcrumbs = <<>> THEN ""
    ELSE IF Len(breadcrumbs) = 1 THEN breadcrumbs[1]
    ELSE breadcrumbs[1] \o " > " \o Join(Tail(breadcrumbs))

\* <<c>> when the condition holds, else no change.
When(condition, c) == IF condition THEN <<c>> ELSE <<>>

\* customData is a set of <<key, value>> pairs with distinct keys.
CustomKeys(customData) == {p[1] : p \in customData}

\* customData[key]
CustomValue(customData, key) ==
    IF key \in CustomKeys(customData)
    THEN (CHOOSE p \in customData : p[1] = key)[2]
    ELSE Absent

\* The keys of {...base.customData, ...compare.customData}, here in the
\* order price, stock.
MergedKeys(base, compare) ==
    SelectSeq(<<"price", "stock">>,
              LAMBDA key : key \in CustomKeys(base.customData) \cup CustomKeys(compare.customData))

\* compareSnapshots(undefined, compare): the page was added.
AddedChanges(compare) ==
    When(compare.title # "", FieldChange("title", "added", Absent, compare.title, "high"))
    \o When(compare.metaDescription # "",
            FieldChange("metaDescription", "added", Absent, compare.metaDescription, "medium"))
    \o When(Len(compare.breadcrumbs) > 0,
            FieldChange("breadcrumbs", "added", Absent, Join(compare.breadcrumbs), "low"))
    \o (IF Len(compare.headers) > 0 THEN compareHeaders(<<>>, compare.headers) ELSE <<>>)

\* compareSnapshots(base, undefined): the page was removed.
RemovedChanges(base) ==
    When(base.title # "", FieldChange("title", "removed", base.title, Absent, "high"))
    \o When(Len(base.breadcrumbs) > 0,
            FieldChange("breadcrumbs", "removed", Join(base.breadcrumbs), Absent, "low"))
    \o (IF Len(base.headers) > 0 THEN compareHeaders(base.headers, <<>>) ELSE <<>>)

\* compareSnapshots(base, compare) with both present.
ModifiedChanges(base, compare) ==
    When(base.title # compare.title,
         FieldChange("title", "modified", base.title, compare.title, "high"))
    \o When(base.metaDescription # compare.metaDescription,
            FieldChange("metaDescription", "modified", base.metaDescription,
                        compare.metaDescription, "medium"))
    \o When(base.canonicalUrl # compare.canonicalUrl,
            FieldChange("canonicalUrl", "modified", base.canonicalUrl,
                        compare.canonicalUrl, "medium"))
    \o When(base.breadcrumbs # compare.breadcrumbs,
            FieldChange("breadcrumbs", "modified", Join(base.breadcrumbs),
                        Join(compare.breadcrumbs), "low"))
    \o compareHeaders(base.headers, compare.headers)
    \o MapSeq(SelectSeq(MergedKeys(base, compare),
                        LAMBDA key : CustomValue(base.customData, key)
                                        # CustomValue(compare.customData, key)),
              LAMBDA key : FieldChange(key, "modified", CustomValue(base.customData, key),
                                       CustomValue(compare.customData, key),
                                       IF key = "price" THEN "high" ELSE "low"))

\* What a page snapshot holds besides its URL.
ContentOld ==
    [title |-> "Old", metaDescription |-> "desc", canonicalUrl |-> "/canon",
     breadcrumbs |-> <<"Home", "Shop">>,
     headers |-> <<[level |-> 1, text |-> "A"], [level |-> 2, text |-> "B"]>>,
     customData |-> {<<"price", "10">>}]

\* ContentOld with a second h1 heading.
ContentSecondH1 ==
    [ContentOld EXCEPT !.headers = <<[level |-> 1, text |-> "A"], [level |-> 1, text |-> "X"],
                                     [level |-> 2, text |-> "B"]>>]

\* A page with a meta description and nothing else.
ContentBare ==
    [title |-> "", metaDescription |-> "desc", canonicalUrl |-> "", breadcrumbs |-> <<>>,
     headers |-> <<>>, customData |-> {}]

\* A page that differs from ContentOld in low-impact fields only.
ContentMinor ==
    [ContentOld EXCEPT !.breadcrumbs = <<"Home">>,
                       !.customData = {<<"price", "10">>, <<"stock", "in">>}]

Contents == {ContentOld, ContentSecondH1, ContentBare, ContentMinor}

CompareUrls == {"/a", "/b"}

Snapshots ==
    {[url |-> u, title |-> c.title, metaDescription |-> c.metaDescription,
      canonicalUrl |-> c.canonicalUrl, breadcrumbs |-> c.breadcrumbs, headers |-> c.headers,
      customData |-> c.customData] : u \in CompareUrls, c \in Contents}

\* [...map.keys()] of new Map(data.map(s => [s.url, s]))
MapKeys(data) == Dedupe(MapSeq(data, LAMBDA s : s.url))

\* map.has(url)
MapHas(data, url) == \E n \in DOMAIN data : data[n].url = url

\* map.get(url) for a key of the map: the last snapshot with that URL.
MapGet(data, url) ==
    data[CHOOSE n \in DOMAIN data :
            /\ data[n].url = url
            /\ \A m \in DOMAIN data : data[m].url = url => m <= n]

\* new Set([...baseMap.keys(), ...compareMap.keys()])
AllUrls(baseData, compareData) == Dedupe(MapKeys(baseData) \o MapKeys(compareData))

\* Mutant of ChangeType: a page with field changes is always 'modified'.
ChangeTypeByChanges(hasBase, hasCompare, changes) ==
    IF Len(changes) > 0 THEN "modified"
    ELSE IF ~hasBase /\ hasCompare THEN "added"
    ELSE IF hasBase /\ ~hasCompare THEN "removed"
    ELSE "unchanged"

\* changeType as the if / else-if chain of the loop body assigns it.
ChangeType(hasBase, hasCompare, changes) ==
    IF ~hasBase /\ hasCompare THEN "added"
    ELSE IF hasBase /\ ~hasCompare THEN "removed"
    ELSE IF hasBase /\ hasCompare /\ Len(changes) > 0 THEN "modified"
    ELSE "unchanged"

\* changes.some(c => c.impact === 'high') ? 'high' : changes.some(...) ? 'medium' : 'low'
Severity(changes) ==
    IF \E n \in DOMAIN changes : changes[n].impact = "high" THEN "high"
    ELSE IF \E n \in DOMAIN changes : changes[n].impact = "medium" THEN "medium"
    ELSE "low"

\* The body of allUrls.forEach for one URL: the PageComparisonResult.
PageChange(url, baseData, compareData) ==
    LET hasBase == MapHas(baseData, url)
        hasCompare == MapHas(compareData, url)
        changes == IF ~hasBase /\ hasCompare THEN AddedChanges(MapGet(compareData, url))
                   ELSE IF hasBase /\ ~hasCompare THEN RemovedChanges(MapGet(baseData, url))
                   ELSE IF hasBase /\ hasCompare
                        THEN ModifiedChanges(MapGet(baseData, url), MapGet(compareData, url))
                   ELSE <<>>
    IN [url |-> url, hasBase |-> hasBase, hasCompare |-> hasCompare,
        changeType |-> ChangeType(hasBase, hasCompare, changes),
        changes |-> changes, severity |-> Severity(changes)]

\* The RunComparison of two snapshot arrays: pageChanges and the summary.
Comparison(baseData, compareData) ==
    LET pageChanges == MapSeq(AllUrls(baseData, compareData),
                              LAMBDA url : PageChange(url, baseData, compareData))
        OfType(t) == SelectSeq(pageChanges, LAMBDA r : r.changeType = t)
    IN [pageChanges |-> pageChanges,
        newPages |-> MapSeq(OfType("added"), LAMBDA r : MapGet(compareData, r.url)),
        removedPages |-> MapSeq(OfType("removed"), LAMBDA r : MapGet(baseData, r.url)),
        modifiedPages |-> OfType("modified"),
        unchangedPages |-> Len(OfType("unchanged"))]

\* The snapshot arrays of the two runs.
ComparisonCalls ==
    [pc : {"call"}, baseData : SeqUpTo(Snapshots, MaxSnapshots),
     compareData : SeqUpTo(Snapshots, MaxSnapshots)]

\* The timer callback of useRunComparison for two runs.
compareRuns ==
    /\ comp.pc = "call"
    /\ comp' = [pc |-> "done", baseData |-> comp.baseData, compareData |-> comp.compareData,
                result |-> Comparison(comp.baseData, comp.compareData)]
    /\ UNCHANGED <<slots, tracking, siteVars, procVars, pat, crawl, disc, sel, now, ticks, queueVars>>

InitCompare ==
    /\ slots = [pub |-> 1, worker |-> 1, retry |-> 1, jobs |-> 1, scans |-> FALSE]
    /\ tracking = FALSE
    /\ InitTables
    /\ pat = NoCall
    /\ crawl = NoCall
    /\ disc = NoCall
    /\ comp \in ComparisonCalls
    /\ sel = NoCall

NextCompare == compareRuns

SpecCompare == InitCompare /\ [][NextCompare]_vars

(***************************************************************************)
(* The queue with a scheduler that keeps triggering the maintenance        *)
(* function: one invocation of each handler, one job. A work message may   *)
(* stay undelivered and a crawler request may stop at any await; only the  *)
(* clock and the maintenance function are sure to go on. The clock of the  *)
(* model ends at MaxTick: the other handlers act before its last advance.  *)
(***************************************************************************)
InitLive ==
    /\ slots = [pub |-> 1, worker |-> 1, retry |-> 1, jobs |-> 1, scans |-> FALSE]
    /\ tracking = FALSE
    /\ InitRows

NextLive ==
    \/ Tick
    \/ maintainFetchStuck
    \/ maintainResetStuck
    \/ maintainFetchOld
    \/ maintainDeleteOld
    \/ \E j \in JobIds : ticks < MaxTick /\ triggerCrawl(j)
    \/ \E j \in JobIds : ticks < MaxTick /\ cancelJob(j)
    \/ \E c \in RetryCalls, j \in JobIds : ticks < MaxTick /\ retryRead(c, j)
    \/ \E c \in RetryCalls : ticks < MaxTick /\ retryWrite(c)
    \/ \E p \in Publishers : ticks < MaxTick /\ publishSelect(p)
    \/ \E p \in Publishers, j \in JobIds : ticks < MaxTick /\ publishMessage(p, j)
    \/ \E p \in Publishers, j \in JobIds : ticks < MaxTick /\ publishFailed(p, j)
    \/ \E p \in Publishers, j \in JobIds : ticks < MaxTick /\ publishUpdate(p, j)
    \/ \E w \in Workers, j \in JobIds : ticks < MaxTick /\ processJobStart(w, j)
    \/ \E w \in Workers : ticks < MaxTick /\ getJobStartTime(w)
    \/ \E w \in Workers : ticks < MaxTick /\ updateJobStatusRunning(w)
    \/ \E w \in Workers : ticks < MaxTick /\ createScan(w)
    \/ \E w \in Workers : ticks < MaxTick /\ discoveryThrows(w)
    \/ \E w \in Workers : ticks < MaxTick /\ processJobThrows(w)
    \/ \E w \in Workers : ticks < MaxTick /\ completeJob(w)
    \/ \E w \in Workers : ticks < MaxTick /\ failJob(w)

\* The scheduler triggers the maintenance function again and again, each
\* invocation runs to its end, and time passes.
LiveFairness ==
    /\ WF_vars(Tick)
    /\ WF_vars(maintainFetchStuck)
    /\ WF_vars(maintainResetStuck)
    /\ WF_vars(maintainFetchOld)
    /\ WF_vars(maintainDeleteOld)

SpecLive == InitLive /\ [][NextLive]_vars /\ LiveFairness

(***************************************************************************)
(* RobustCrawler.parseSitemap call by call: every call fetches its         *)
(* document and, for a sitemap index that is followed, awaits one nested   *)
(* call per <loc>. The chain of nested calls is followed until it is       *)
(* longer than the set of documents, when some document is being parsed    *)
(* inside its own parse.                                                   *)
(***************************************************************************)
\* The documents of SitemapDoc and four sitemap indexes: one that names
\* itself after a URL set, two that name each other, and one over a sound
\* index and one of those two.
SitemapWeb(url) ==
    CASE url = "/loop.xml" -> [kind |-> "sitemapindex", locs |-> <<"/a.xml", "/loop.xml">>]
      [] url = "/ping.xml" -> [kind |-> "sitemapindex", locs |-> <<"/pong.xml">>]
      [] url = "/pong.xml" -> [kind |-> "sitemapindex", locs |-> <<"/b.xml", "/ping.xml">>]
      [] url = "/top.xml" -> [kind |-> "sitemapindex", locs |-> <<"/index.xml", "/ping.xml">>]
      [] OTHER -> SitemapDoc(url)

SitemapWebLocations == SitemapLocations \cup {"/loop.xml", "/ping.xml", "/pong.xml", "/top.xml"}

\* A call of parseSitemap(sitemapUrl, settings) that has fetched nothing
\* yet. A frame of the stack is a call under way: its URL and the <loc> of
\* its document it handles next.
SitemapCalls ==
    [pc : {"parse"},
     followSitemapIndex : BOOLEAN,
     stack : {<<[url |-> u, next |-> 1]>> : u \in SitemapWebLocations},
     urls : {<<>>}]

\* `for (const match of sitemapMatches)` has another <loc>: the call awaits
\* this.parseSitemap(match[1], settings).
sitemapDescend ==
    /\ disc.pc = "parse"
    /\ LET depth == Len(disc.stack)
           top == disc.stack[depth]
           doc == SitemapWeb(top.url)
       IN /\ doc.kind = "sitemapindex"
          /\ disc.followSitemapIndex
          /\ top.next <= Len(doc.locs)
          /\ depth <= Cardinality(SitemapWebLocations)
          /\ disc' = [disc EXCEPT
                        !.stack = Append([@ EXCEPT ![depth].next = top.next + 1],
                                         [url |-> doc.locs[top.next], next |-> 1])]
    /\ UNCHANGED <<slots, tracking, siteVars, procVars, pat, crawl, comp, sel, now, ticks, queueVars>>

\* The call on top of the stack reaches `return urls`: its fetch failed, or
\* its document is a URL set whose <loc>s it has pushed, or an index that
\* is not followed or whose nested calls have all returned.
sitemapReturn ==
    /\ disc.pc = "parse"
    /\ LET depth == Len(disc.stack)
           top == disc.stack[depth]
           doc == SitemapWeb(top.url)
       IN /\ ~(doc.kind = "sitemapindex" /\ disc.followSitemapIndex /\ top.next <= Len(doc.locs))
          /\ disc' = [disc EXCEPT
                        !.pc = IF depth = 1 THEN "returned" ELSE "parse",
                        !.stack = SubSeq(@, 1, depth - 1),
                        !.urls = IF doc.kind = "urlset" THEN PushAll(@, doc.locs) ELSE @]
    /\ UNCHANGED <<slots, tracking, siteVars, procVars, pat, crawl, comp, sel, now, ticks, queueVars>>

InitSitemap ==
    /\ slots = [pub |-> 1, worker |-> 1, retry |-> 1, jobs |-> 1, scans |-> FALSE]
    /\ tracking = FALSE
    /\ InitTables
    /\ pat = NoCall
    /\ crawl = NoCall
    /\ disc \in SitemapCalls
    /\ comp = NoCall
    /\ sel = NoCall

NextSitemap ==
    \/ sitemapDescend
    \/ sitemapReturn

\* Every fetch ends (it has a timeout) and every await resumes.
SpecSitemap ==
    InitSitemap /\ [][NextSitemap]_vars /\ WF_vars(sitemapDescend) /\ WF_vars(sitemapReturn)

(***************************************************************************)
(* The select of the two dispatchers, publishJobs (limit 50) and           *)
(* JobProcessor.processQueuedJobs (limit 1, repeated while fewer than      *)
(* three jobs are active), over a table of rows with a priority and a      *)
(* created_at. Rows that tie in both columns come in either order.         *)
(***************************************************************************)
DispatchRowIds == 1..NumDispatchRows

DispatchRows == [status : {"queued", "running"}, priority : {0, 1}, created_at : {0, 1}]

\* Mutant of Before: the select ordered by created_at alone.
BeforeByCreation(rows, a, b) == rows[a].created_at < rows[b].created_at

\* .order('priority', {ascending: false}).order('created_at', {ascending: true}):
\* row a must come before row b.
Before(rows, a, b) ==
    \/ rows[a].priority > rows[b].priority
    \/ rows[a].priority = rows[b].priority /\ rows[a].created_at < rows[b].created_at

\* The results the select may return: the rows with status queued in an
\* order the two order clauses allow, cut at the limit.
SelectQueued(rows, limit) ==
    LET queued == {j \in DispatchRowIds : rows[j].status = "queued"}
        n == Cardinality(queued)
        orders == {q \in [1..n -> queued] :
                     /\ \A i, k \in 1..n : q[i] = q[k] => i = k
                     /\ \A i, k \in 1..n : i < k => ~Before(rows, q[k], q[i])}
    IN {SubSeq(q, 1, Min(limit, n)) : q \in orders}

\* .limit(50) of publishJobs, .limit(1) of processQueuedJobs
SelectLimit(kind) == IF kind = "publisher" THEN PublishLimit ELSE 1

\* A dispatcher about to select, and the table it will read.
DispatchCalls ==
    [pc : {"select"},
     kind : {"publisher", "processor"},
     rows : [DispatchRowIds -> DispatchRows],
     selected : {<<>>},
     leased : {{}}]

\* The select of a cycle. The job processor leaves its loop when it has
\* three active jobs or finds no queued row; publishJobs returns when it
\* finds none.
dispatchSelect ==
    /\ sel.pc = "select"
    /\ \E result \in SelectQueued(sel.rows, SelectLimit(sel.kind)) :
          sel' = [sel EXCEPT
                    !.selected = result,
                    !.pc = IF result = <<>> THEN "done" ELSE "lease"]
    /\ UNCHANGED <<slots, tracking, siteVars, procVars, pat, crawl, disc, comp, now, ticks,
                   queueVars>>

\* .update({status: 'running', ...}).eq('id', job.id) for one selected row;
\* the callbacks of publishJobs send theirs in any order. After its update
\* the job processor selects again unless three jobs are active.
dispatchLease(j) ==
    /\ sel.pc = "lease"
    /\ j \in Range(sel.selected) \ sel.leased
    /\ LET leased == sel.leased \cup {j}
           all == Range(sel.selected) \subseteq leased
       IN sel' = [sel EXCEPT
                    !.rows[j].status = "running",
                    !.leased = leased,
                    !.pc = IF ~all THEN "lease"
                           ELSE IF sel.kind = "processor" /\ Cardinality(leased) < MaxConcurrentJobs
                                THEN "select"
                           ELSE "done"]
    /\ UNCHANGED <<slots, tracking, siteVars, procVars, pat, crawl, disc, comp, now, ticks,
                   queueVars>>

InitDispatch ==
    /\ slots = [pub |-> 1, worker |-> 1, retry |-> 1, jobs |-> 1, scans |-> FALSE]
    /\ tracking = FALSE
    /\ InitTables
    /\ pat = NoCall
    /\ crawl = NoCall
    /\ disc = NoCall
    /\ comp = NoCall
    /\ sel \in DispatchCalls

NextDispatch ==
    \/ dispatchSelect
    \/ \E j \in DispatchRowIds : dispatchLease(j)

SpecDispatch == InitDispatch /\ [][NextDispatch]_vars

(***************************************************************************)
(* The comparison of two runs that hold one snapshot each, of the same     *)
(* URL: compareSnapshots field by field. The snapshots differ in any set   *)
(* of fields; the heading lists have the same levels in the same places.   *)
(***************************************************************************)
FieldHeaders ==
    {<<[level |-> 1, text |-> "A"], [level |-> 2, text |-> "B"], [level |-> 3, text |-> "C"]>>,
     <<[level |-> 1, text |-> "X"], [level |-> 2, text |-> "B"], [level |-> 3, text |-> "C"]>>,
     <<[level |-> 1, text |-> "A"], [level |-> 2, text |-> "Y"], [level |-> 3, text |-> "C"]>>,
     <<[level |-> 1, text |-> "A"], [level |-> 2, text |-> "B"], [level |-> 3, text |-> "Z"]>>}

FieldCustomData ==
    {{<<"price", "10">>}, {<<"price", "12">>}, {<<"price", "10">>, <<"stock", "in">>}}

FieldSnapshots ==
    [url : {"/a"}, title : {"Old", "New"}, metaDescription : {"desc", "other"},
     canonicalUrl : {"/canon", "/moved"}, breadcrumbs : {<<"Home", "Shop">>, <<"Home">>},
     headers : FieldHeaders, customData : FieldCustomData]

InitDiff ==
    /\ slots = [pub |-> 1, worker |-> 1, retry |-> 1, jobs |-> 1, scans |-> FALSE]
    /\ tracking = FALSE
    /\ InitTables
    /\ pat = NoCall
    /\ crawl = NoCall
    /\ disc = NoCall
    /\ sel = NoCall
    /\ comp \in [pc : {"call"}, baseData : {<<s>> : s \in FieldSnapshots},
                 compareData : {<<s>> : s \in FieldSnapshots}]

SpecDiff == InitDiff /\ [][compareRuns]_vars

(***************************************************************************)
(* Properties                                                              *)
(***************************************************************************)
Status(j) == jobs[j].status

\* C1: for a queued job, at most one dispatcher invocation obtains the
\* lease: at most one reports success and hands the job to a worker.
C1_LeaseMutualExclusion == \A j \in JobIds : wins[j] <= 1

\* The transitions of the job state machine, error re-queue and retry included.
AllowedTransitions ==
    {<<"queued", "running">>, <<"running", "completed">>, <<"running", "failed">>,
     <<"running", "cancelled">>, <<"queued", "cancelled">>, <<"running", "queued">>,
     <<"failed", "queued">>}

\* C2: every persisted change of a job's status is a transition of the job
\* state machine (the insert and the delete of the row are no transitions).
C2_JobStateMachine ==
    [][\A j \in JobIds :
          (Exists(j) /\ jobs'[j].status # jobs[j].status /\ jobs'[j].status # "deleted")
              => <<jobs[j].status, jobs'[j].status>> \in AllowedTransitions]_vars

\* C3: each lease of a job (a queued -> running transition) leads to at
\* most one execution of the scan orchestrator: a message that matches no
\* fresh lease starts no scan.
C3_SingleExecution == \A j \in JobIds : scansStarted[j] <= leases[j]

RetryWriteStep(c) == retry[c].pc = "write" /\ retry'[c].pc = "idle"

\* C4: retryFailedJob re-queues a job only if it is failed and the
\* retry_count the call read is below max_retries; the write then sets
\* status queued, retry_count to the value read plus one, progress 0 and
\* clears error_message, started_at and completed_at; a call that read
\* retry_count >= max_retries never writes, and a row that is not failed is
\* left unchanged.
C4_RetryContract ==
    [][/\ \A c \in RetryCalls :
            RetryWriteStep(c) =>
                LET j == retry[c].job
                IN /\ retry[c].retry_count < retry[c].max_retries
                   /\ IF jobs[j].status = "failed"
                      THEN jobs'[j] = [jobs[j] EXCEPT !.status = "queued",
                                          !.retry_count = retry[c].retry_count + 1,
                                          !.progress = 0, !.error_message = "null",
                                          !.started_at = NULL, !.completed_at = NULL]
                      ELSE jobs'[j] = jobs[j]
       /\ \A j \in JobIds :
            (Exists(j) /\ jobs'[j].status = "queued" /\ jobs[j].status # "queued")
                => /\ jobs[j].status = "failed"
                   /\ \E c \in RetryCalls : RetryWriteStep(c) /\ retry[c].job = j]_vars

C4_Witness ==
    \E j \in JobIds : jobs[j].status = "queued" /\ jobs[j].retry_count = 2
                       /\ jobs[j].progress = 0 /\ jobs[j].started_at = NULL

\* A step of cancelJob on row j: the row changes while no handler that
\* writes job rows moves.
CancelStep(j) ==
    /\ Exists(j)
    /\ jobs'[j] # jobs[j]
    /\ UNCHANGED <<pub, worker, retry, maint>>

\* C5: cancelJob changes a job only if it is queued or running at the
\* write, setting status cancelled and completed_at and nothing else; on a
\* completed, failed or cancelled job it changes no field.
C5_CancelContract ==
    [][\A j \in JobIds :
          /\ CancelStep(j) =>
                /\ jobs[j].status \in {"queued", "running"}
                /\ jobs'[j] = [jobs[j] EXCEPT !.status = "cancelled", !.completed_at = now]
          /\ (jobs'[j].status = "cancelled" /\ jobs[j].status # "cancelled")
                => CancelStep(j)]_vars

C5_Witness ==
    \E j \in JobIds : jobs[j].status = "cancelled" /\ jobs[j].started_at # NULL
                       /\ jobs[j].completed_at = now /\ now > 0

\* C6: once a job is cancelled, the worker writes no further status or
\* progress: the row stays as the cancel left it.
C6_CancelledStaysCancelled ==
    [][\A j \in JobIds : jobs[j].status = "cancelled" => jobs'[j] = jobs[j]]_vars

FailStep(w) == worker[w].pc = "fail" /\ worker'[w].pc = "idle"

\* C7: when the orchestrator fails on a job whose retry_count is below
\* max_retries, the job goes back to queued with retry_count incremented by
\* one (it ends failed only when retry_count has reached max_retries).
C7_AutoRequeue ==
    [][\A w \in Workers :
          LET j == worker[w].job
          IN (FailStep(w) /\ Exists(j) /\ jobs[j].retry_count < jobs[j].max_retries)
                => /\ jobs'[j].status = "queued"
                   /\ jobs'[j].retry_count = jobs[j].retry_count + 1]_vars

\* C8: completed_at is non-null exactly when the status is terminal.
C8_CompletedAtIffTerminal ==
    \A j \in JobIds :
        Exists(j) => (jobs[j].completed_at # NULL <=> jobs[j].status \in Terminal)

\* C9: progress stays within 0..100 and is 100 exactly when the status is
\* completed.
C9_ProgressIffCompleted ==
    \A j \in JobIds :
        Exists(j) => /\ jobs[j].progress \in 0..100
                     /\ (jobs[j].progress = 100 <=> jobs[j].status = "completed")

C17_DeleteOnlyOldTerminal ==
    [][\A j \in JobIds :
          (Exists(j) /\ jobs'[j].status = "deleted")
              => /\ jobs[j].status \in Terminal
                 /\ jobs[j].completed_at # NULL
                 /\ jobs[j].completed_at < now - OldJobDays * 24]_vars

\* C18: after any sequence of archiveWebsite and unarchiveWebsite calls, the
\* stored archived_at is set exactly when the stored status is archived.
C18_ArchivedAtIffArchived ==
    \A s \in SiteIds :
        sites[s].status # "deleted"
            => (sites[s].archived_at # NULL <=> sites[s].status = "archived")

\* C19: the sweeper deletes a site only if, at the delete, its status is
\* archived and its archived_at is older than the retention window; an
\* active site is never deleted by it.
C19_SweepOnlyExpiredArchives ==
    [][\A s \in SiteIds :
          (sites[s].status # "deleted" /\ sites'[s].status = "deleted")
              => /\ sites[s].status = "archived"
                 /\ sites[s].archived_at # NULL
                 /\ sites[s].archived_at < now - ArchiveRetentionDays * 24]_vars

\* A site was swept while another, un-archived with an archived_at just as
\* old, is still there.
C19_Witness ==
    \E s, t \in SiteIds :
        /\ sites[s].status = "deleted"
        /\ sites[t].status = "active"
        /\ sites[t].archived_at # NULL
        /\ sites[t].archived_at < now - ArchiveRetentionDays * 24
        /\ sweep.pc = "idle"

\* The runs in flight: a job a request leased and whose processing has not
\* ended.
InFlight == {x \in Requests \X ProcJobIds : x[2] \in proc[x[1]].activeJobs}

\* C16: at any time at most 3 jobs leased by the dispatcher are being
\* processed; no further job is leased while 3 are in flight, across
\* successive dispatch cycles.
C16_ConcurrencyCap == Cardinality(InFlight) <= MaxConcurrentJobs

C15_ScheduledForRespected ==
    \A j \in JobIds :
        (Exists(j) /\ jobs[j].scheduled_for # NULL /\ now < jobs[j].scheduled_for)
            => (jobs[j].status = "queued" /\ msgs[j] = 0)

\* The crawler requests that hold a job: processJob has started and has not
\* yet written the job's final status.
JobsInProcess == {w \in Workers : worker[w].pc # "idle"}

RunningScans == {i \in DOMAIN scans : scans[i].status = "running"}

\* C11: at no time are two scans of the site in progress: at most one scan
\* job is being processed and at most one scan row has status running,
\* whatever the number of jobs triggered for the site.
C11_OneRunningScanPerSite ==
    /\ Cardinality(JobsInProcess) <= 1
    /\ Cardinality(RunningScans) <= 1

\* The scan rows the crawler inserted for job j.
RunScans(j) == {i \in DOMAIN scans : scans[i].job = j /\ scans[i].by = "crawler"}

\* C13: when the orchestrator's catch block marks a job failed, the scan row
\* created for that run becomes failed; when a job is cancelled, the running
\* scan rows of its run become cancelled.
C13_ScanFollowsJob ==
    [][/\ \A w \in Workers :
            (FailStep(w) /\ worker[w].scan # 0)
                => scans'[worker[w].scan].status = "failed"
       /\ \A j \in JobIds :
            (jobs[j].status # "cancelled" /\ jobs'[j].status = "cancelled")
                => \A i \in RunScans(j) :
                       scans[i].status = "running" => scans'[i].status = "cancelled"]_vars

\* The scan rows of the run of job j, whoever inserted them.
ScansOf(j) == {i \in DOMAIN scans : scans[i].job = j}

\* C14: a scan triggered from the application whose job is completed has
\* exactly one scan row, with status completed; once every job of the site
\* is terminal and no request is still working, no scan row is running.
C14_OneScanRowPerRun ==
    /\ \A j \in JobIds :
          (jobs[j].status = "completed" /\ \E i \in ScansOf(j) : scans[i].by = "app")
              => /\ Cardinality(ScansOf(j)) = 1
                 /\ \A i \in ScansOf(j) : scans[i].status = "completed"
    /\ ((\E j \in JobIds : Exists(j))
          /\ (\A j \in JobIds : Exists(j) => jobs[j].status \in Terminal)
          /\ JobsInProcess = {})
              => RunningScans = {}

\* C20: a scan row is never completed while some of the page results its
\* total_pages counts were not persisted.
C20_PersistenceErrorFailsScan ==
    \A i \in DOMAIN scans :
        scans[i].status = "completed" => scans[i].saved = scans[i].total_pages

\* Some pattern of the list matches the URL.
SomeMatch(url, patterns) == \E i \in DOMAIN patterns : matchesPattern(url, patterns[i])

\* The sequences that hold the elements of q in some order.
Reorderings(q) ==
    {[i \in DOMAIN q |-> q[f[i]]] :
        f \in {g \in [DOMAIN q -> DOMAIN q] : \A i, j \in DOMAIN q : g[i] = g[j] => i = j}}

C23_CrawlIncludeExclude ==
    (/\ crawl.pc = "done"
     /\ crawl.includePatterns = <<[pattern |-> GlobProducts, enabled |-> TRUE]>>
     /\ crawl.excludePatterns = <<GlobPrivate>>
     /\ crawl.maxDepth = 2
     /\ crawl.down = {})
        => /\ UrlProductsA \in crawl.discovered
           /\ UrlProductsB \in crawl.discovered
           /\ UrlPrivateX \notin crawl.discovered
           /\ UrlAbout \notin crawl.discovered

\* C24: when the loop of discoverFromCrawling has ended, the discovered set
\* holds at most maxPages URLs.
C24_PageCap ==
    crawl.pc = "done" => Cardinality(crawl.discovered) <= crawl.maxPages

\* C25: no URL at a depth greater than the configured maxDepth is fetched or
\* discovered; with maxDepth 0 only the site root is fetched and discovered.
C25_DepthCap ==
    crawl.pc \in {"loop", "done"} =>
        /\ \A i \in DOMAIN crawl.requests : crawl.requests[i].depth <= crawl.maxDepth
        /\ crawl.maxDepth = 0 => crawl.discovered \subseteq {SiteRoot}

\* The URL is on the host of the site root.
SameSite(url) == Len(url) >= Len(SiteRoot) /\ SubSeq(url, 1, Len(SiteRoot)) = SiteRoot

\* C26: when followExternalLinks is false, every URL the crawl enqueues,
\* fetches or returns is on the site's own domain.
C26_ExternalLinkPolicy ==
    (crawl.pc \in {"loop", "done"} /\ ~crawl.followExternalLinks)
        => /\ \A i \in DOMAIN crawl.queue : SameSite(crawl.queue[i].url)
           /\ \A i \in DOMAIN crawl.requests : SameSite(crawl.requests[i].url)
           /\ \A url \in crawl.discovered : SameSite(url)

\* The page URLs listed by the sitemap at url, or, through an index that is
\* followed, by the sitemaps it names; none when the sitemap cannot be
\* fetched.
RECURSIVE ListedBy(_, _)
ListedBy(url, follow) ==
    LET doc == SitemapDoc(url)
    IN IF doc.kind = "urlset" THEN Range(doc.locs)
       ELSE IF doc.kind = "sitemapindex" /\ follow
            THEN UNION {ListedBy(doc.locs[k], follow) : k \in DOMAIN doc.locs}
       ELSE {}

\* C21: a sitemap that cannot be fetched is skipped and the other sitemaps
\* are still processed: discovery returns, once each, the URLs listed by the
\* enabled sitemaps that can be read. The scan and its job end completed,
\* never failed; when no URL was found the scan has total_pages 0 and
\* error_pages 0. The status of the site is unchanged.
C21_DiscoveryFailuresDoNotFail ==
    /\ disc.pc \in {"process", "save", "done"} =>
          /\ Range(disc.found) =
                UNION {ListedBy(disc.sitemapUrls[k].url, disc.followSitemapIndex) :
                          k \in {n \in DOMAIN disc.sitemapUrls : disc.sitemapUrls[n].enabled}}
          /\ \A m, n \in DOMAIN disc.found : disc.found[m] = disc.found[n] => m = n
    /\ disc.pc = "done" =>
          /\ disc.scan.status = "completed"
          /\ disc.job.status = "completed"
          /\ disc.site.status = "active"
          /\ disc.found = <<>> => (disc.scan.total_pages = 0 /\ disc.scan.error_pages = 0)

\* Both configured sitemaps failed, one with HTTP 404 and one with a
\* rejected fetch, and the scan ended completed with no page.
C21_Witness ==
    /\ disc.pc = "done"
    /\ disc.sitemapUrls = <<[url |-> "/gone.xml", enabled |-> TRUE],
                            [url |-> "/down.xml", enabled |-> TRUE]>>
    /\ disc.scan = [NewScan EXCEPT !.status = "completed"]
    /\ disc.job.status = "completed"

\* ---- useRunComparison ----

KeysOf(data) == {data[n].url : n \in DOMAIN data}

PagesOfType(t) == {n \in DOMAIN comp.result.pageChanges : comp.result.pageChanges[n].changeType = t}

\* C27: the comparison yields exactly one page result per URL of the union of
\* the two key sets; a page is added iff its URL is not in base, removed iff
\* it is not in compare, modified iff it is in both and the snapshot diff is
\* non-empty, unchanged iff it is in both and the diff is empty; the four
\* summary counts add up to the size of the union.
C27_ComparisonPartition ==
    comp.pc = "done" =>
        LET B == KeysOf(comp.baseData)
            C == KeysOf(comp.compareData)
            pages == comp.result.pageChanges
            summary == comp.result
            Diff(url) == ModifiedChanges(MapGet(comp.baseData, url), MapGet(comp.compareData, url))
        IN /\ {pages[n].url : n \in DOMAIN pages} = B \cup C
           /\ \A m, n \in DOMAIN pages : pages[m].url = pages[n].url => m = n
           /\ \A n \in DOMAIN pages :
                LET url == pages[n].url
                    t == pages[n].changeType
                IN /\ t \in {"added", "removed", "modified", "unchanged"}
                   /\ t = "added" <=> url \notin B
                   /\ t = "removed" <=> url \notin C
                   /\ t = "modified" <=> url \in B /\ url \in C /\ Diff(url) # <<>>
                   /\ t = "unchanged" <=> url \in B /\ url \in C /\ Diff(url) = <<>>
           /\ Len(summary.newPages) = Cardinality(PagesOfType("added"))
           /\ Len(summary.removedPages) = Cardinality(PagesOfType("removed"))
           /\ Len(summary.modifiedPages) = Cardinality(PagesOfType("modified"))
           /\ summary.unchangedPages = Cardinality(PagesOfType("unchanged"))
           /\ Len(summary.newPages) + Len(summary.removedPages) + Len(summary.modifiedPages)
                + summary.unchangedPages = Cardinality(B \cup C)

\* A comparison of runs that list a URL twice, with one page modified and one
\* page added that carries field changes.
C27_Witness ==
    /\ comp.pc = "done"
    /\ Len(comp.baseData) > Cardinality(KeysOf(comp.baseData))
    /\ PagesOfType("modified") # {}
    /\ \E n \in PagesOfType("added") : comp.result.pageChanges[n].changes # <<>>

ChangeSet(changes) == {changes[n] : n \in DOMAIN changes}

\* A FieldChange seen from the other side: added and removed trade places,
\* and so do the old and the new value.
Mirrored(c) ==
    [field |-> c.field,
     type |-> IF c.type = "added" THEN "removed" ELSE IF c.type = "removed" THEN "added" ELSE c.type,
     oldValue |-> c.newValue, newValue |-> c.oldValue, impact |-> c.impact]

MirroredType(t) == IF t = "added" THEN "removed" ELSE IF t = "removed" THEN "added" ELSE t

PageFor(pages, url) == pages[CHOOSE n \in DOMAIN pages : pages[n].url = url]

\* C28: comparing (compare, base) instead of (base, compare) turns every
\* added page into a removed page and back with mirrored field changes,
\* swaps the old and new value of every change of a modified page, and keeps
\* the unchanged count and every page's severity.
C28_ComparisonSymmetry ==
    comp.pc = "done" =>
        LET forward == comp.result
            backward == Comparison(comp.compareData, comp.baseData)
        IN /\ backward.unchangedPages = forward.unchangedPages
           /\ \A n \in DOMAIN forward.pageChanges :
                LET r == forward.pageChanges[n]
                    s == PageFor(backward.pageChanges, r.url)
                IN /\ s.changeType = MirroredType(r.changeType)
                   /\ ChangeSet(s.changes) = {Mirrored(c) : c \in ChangeSet(r.changes)}
                   /\ s.severity = r.severity

ImpactRank(impact) == IF impact = "high" THEN 3 ELSE IF impact = "medium" THEN 2 ELSE 1

\* C29: a page's severity is the highest impact among its field changes,
\* and is absent when the page has no field change.
C29_Severity ==
    comp.pc = "done" =>
        \A n \in DOMAIN comp.result.pageChanges :
            LET r == comp.result.pageChanges[n]
            IN IF r.changes = <<>>
               THEN r.severity = Absent
               ELSE /\ \E c \in ChangeSet(r.changes) : c.impact = r.severity
                    /\ \A c \in ChangeSet(r.changes) : ImpactRank(c.impact) <= ImpactRank(r.severity)

\* The headings of a list keyed by (level, index among the headings of that level).
KeyedByLevel(headers) ==
    {[key |-> <<headers[n].level,
                Cardinality({m \in 1..(n - 1) : headers[m].level = headers[n].level})>>,
      header |-> headers[n]] : n \in DOMAIN headers}

AlignedByLevel(baseHeaders, otherHeaders) ==
    LET b == KeyedByLevel(baseHeaders)
        c == KeyedByLevel(otherHeaders)
    IN {FieldChange(HeaderField(h.header), "removed", h.header.text, Absent, HeaderImpact(h.header)) :
            h \in {x \in b : \A y \in c : y.key # x.key}}
       \cup {FieldChange(HeaderField(h.header), "added", Absent, h.header.text,
                          HeaderImpact(h.header)) :
            h \in {y \in c : \A x \in b : x.key # y.key}}
       \cup {FieldChange(HeaderField(p[1].header), "modified", p[1].header.text, p[2].header.text,
                          HeaderImpact(p[1].header)) :
            p \in {q \in b \X c : q[1].key = q[2].key /\ q[1].header.text # q[2].header.text}}

HeaderFields == {"header-h" \o ToString(level) : level \in 1..6}

\* C30: the heading changes of a page present in both runs are those of the
\* two heading lists aligned by (level, index within the level): removed for
\* a key only in base, added for a key only in compare, modified for a key
\* in both with different text; a heading inserted at one level changes
\* nothing at the other levels.
C30_HeadingAlignment ==
    comp.pc = "done" =>
        \A n \in DOMAIN comp.result.pageChanges :
            LET r == comp.result.pageChanges[n]
            IN r.hasBase /\ r.hasCompare =>
                 {c \in ChangeSet(r.changes) : c.field \in HeaderFields}
                   = AlignedByLevel(MapGet(comp.baseData, r.url).headers,
                                    MapGet(comp.compareData, r.url).headers)

\* ---- scan counters ----

PreviousUrls == {s.url : s \in disc.previous}

\* The URLs of this scan that the previous scan holds with another content hash.
ChangedUrls ==
    {disc.found[i] : i \in {n \in DOMAIN disc.found :
        \E s \in disc.previous :
            s.url = disc.found[n] /\ s.content_hash # ContentHash(disc.results[n])}}

\* C31: when a scan completes, new_pages is the number of its URLs that the
\* previous scan of the site did not have, removed_pages the number of URLs
\* of the previous scan that it lacks, changed_pages the number of URLs in
\* both with a different content hash; the site row carries the same values.
C31_ScanCounters ==
    disc.pc = "done" =>
        /\ disc.scan.new_pages = Cardinality(Range(disc.found) \ PreviousUrls)
        /\ disc.scan.removed_pages = Cardinality(PreviousUrls \ Range(disc.found))
        /\ disc.scan.changed_pages = Cardinality(ChangedUrls)
        /\ disc.site.new_pages = disc.scan.new_pages
        /\ disc.site.removed_pages = disc.scan.removed_pages
        /\ disc.site.changed_pages = disc.scan.changed_pages

\* C32: error_pages of a completed scan is the number of page results whose
\* response code is outside [200, 400), the pages whose fetch failed
\* (response code 0) included.
C32_ErrorPages ==
    disc.pc = "done" =>
        disc.scan.error_pages =
            Cardinality({i \in DOMAIN disc.results : ~(200 <= disc.results[i] /\ disc.results[i] < 400)})

\* ---- races ----

\* C33: the stuck-job reset changes a job only if, at the moment of the
\* write, the job is still running with started_at older than the
\* threshold; a job that a worker completed or a user cancelled after the
\* reset selected it keeps that status.
C33_ResetOnlyStillStuck ==
    [][\A j \in JobIds :
          (maint.pc = "reset" /\ maint'.pc = "old" /\ jobs'[j] # jobs[j]) => j \in StuckJobs]_vars

\* C34: whatever the interleaving of concurrent retryFailedJob calls with
\* leases and failures of the same job, retry_count never exceeds
\* max_retries and never decreases, so that retry re-queues the job at most
\* max_retries times.
C34_RetryBudget ==
    [][\A j \in JobIds :
          (Exists(j) /\ jobs'[j].status \notin {"none", "deleted"}) =>
              /\ jobs'[j].retry_count <= jobs'[j].max_retries
              /\ jobs'[j].retry_count >= jobs[j].retry_count]_vars

\* ---- termination ----

EndedOrGone(j) == jobs[j].status \in Terminal \cup {"deleted"}

\* C35: a job that was moved to running eventually reaches a terminal
\* status, even if its work message is never delivered or the worker stops,
\* as long as the maintenance function keeps being triggered; it then stays
\* terminal unless a retry re-queues it.
C35_LeasedJobTerminates ==
    /\ \A j \in JobIds : (jobs[j].status = "running") ~> EndedOrGone(j)
    /\ [][\A j \in JobIds :
             (jobs[j].status \in Terminal /\ jobs'[j].status \notin Terminal \cup {"deleted"})
                => (jobs[j].status = "failed" /\ jobs'[j].status = "queued")]_vars

\* ---- crawl requests ----

\* C36: within one run of discoverFromCrawling no URL is requested twice,
\* even when it is in the frontier several times or several times in one
\* batch.
C36_FetchedOnce ==
    \A m, n \in DOMAIN crawl.requests :
        crawl.requests[m].url = crawl.requests[n].url => m = n

\* A finished crawl with three callbacks per batch in which two pages of one
\* batch both linked to the external page, which was then requested.
C36_Witness ==
    /\ crawl.pc = "done"
    /\ crawl.maxConcurrency = 3
    /\ {UrlProductsA, UrlAbout} \subseteq crawl.discovered
    /\ \E n \in DOMAIN crawl.requests : crawl.requests[n].url = UrlExternal

\* ---- sitemap resolution ----

Unselected ==
    {k \in DispatchRowIds : sel.rows[k].status = "queued" /\ k \notin Range(sel.selected)}

\* Row k has a strictly higher priority than row j, or the same priority
\* and an earlier created_at.
Outranks(k, j) ==
    \/ sel.rows[k].priority > sel.rows[j].priority
    \/ /\ sel.rows[k].priority = sel.rows[j].priority
       /\ sel.rows[k].created_at < sel.rows[j].created_at

\* C38: a dispatcher selects the queued jobs by priority descending, then
\* created_at ascending: the selection is in that order, and no job is
\* leased in a cycle whose select left out a queued job of strictly higher
\* priority, or of equal priority and earlier created_at.
C38_DispatchOrder ==
    sel.pc = "lease" =>
        /\ \A m, n \in DOMAIN sel.selected : m < n => ~Outranks(sel.selected[n], sel.selected[m])
        /\ \A j \in Range(sel.selected), k \in Unselected : ~Outranks(k, j)

\* The job processor leased a job of priority 1 while an older job of
\* priority 0 stays queued, unselected.
C38_Witness ==
    /\ sel.pc = "lease"
    /\ sel.kind = "processor"
    /\ \E j \in sel.leased, k \in Unselected :
          /\ sel.rows[j].priority > sel.rows[k].priority
          /\ sel.rows[j].created_at > sel.rows[k].created_at

\* ---- per-field diff ----

\* {c} when the condition holds, else no change.
Only(condition, c) == IF condition THEN {c} ELSE {}

\* The changes two snapshots of one URL call for, field by field.
ExpectedChanges(base, compare) ==
    Only(base.title # compare.title,
         FieldChange("title", "modified", base.title, compare.title, "high"))
    \cup Only(base.metaDescription # compare.metaDescription,
              FieldChange("metaDescription", "modified", base.metaDescription,
                          compare.metaDescription, "medium"))
    \cup Only(base.canonicalUrl # compare.canonicalUrl,
              FieldChange("canonicalUrl", "modified", base.canonicalUrl,
                          compare.canonicalUrl, "medium"))
    \cup Only(base.breadcrumbs # compare.breadcrumbs,
              FieldChange("breadcrumbs", "modified", Join(base.breadcrumbs),
                          Join(compare.breadcrumbs), "low"))
    \cup {FieldChange("header-h" \o ToString(base.headers[n].level), "modified",
                      base.headers[n].text, compare.headers[n].text,
                      IF base.headers[n].level \in {1, 2} THEN "high" ELSE "medium") :
        n \in {i \in DOMAIN base.headers : base.headers[i].text # compare.headers[i].text}}
    \cup {FieldChange(key, "modified", CustomValue(base.customData, key),
                      CustomValue(compare.customData, key),
                      IF key = "price" THEN "high" ELSE "low") :
        key \in {k \in CustomKeys(base.customData) \cup CustomKeys(compare.customData) :
                    CustomValue(base.customData, k) # CustomValue(compare.customData, k)}}

====
